---- MODULE Spec2Model ----
(***************************************************************************)
(* Verification model of the zoraxy HTTP response cache: the cache key     *)
(* generator and the cacheability rules (mod/cache), the filesystem and    *)
(* Redis stores (mod/cache) and the cache middleware (mod/cachemiddleware).*)
(*                                                                         *)
(* Go strings are modelled as sequences of atoms.  An atom is one          *)
(* character, or a run of characters that no operation of the program      *)
(* splits (a token such as "http", "no-store", "%7C").                     *)
(***************************************************************************)
EXTENDS Integers, Sequences, FiniteSets, TLC

(***************************************************************************)
(* String helpers (package strings, sort)                                  *)
(***************************************************************************)

\* strings.Join(parts, sep) for a one-atom separator
RECURSIVE Join(_, _)
Join(parts, sep) ==
    IF parts = <<>> THEN <<>>
    ELSE IF Len(parts) = 1 THEN parts[1]
    ELSE parts[1] \o <<sep>> \o Join(Tail(parts), sep)

\* strings.Split(s, sep) for a one-atom separator: the pieces between separators
RECURSIVE Split(_, _)
Split(s, sep) ==
    IF \A i \in 1..Len(s) : s[i] # sep THEN <<s>>
    ELSE LET i == CHOOSE j \in 1..Len(s) : s[j] = sep /\ \A k \in 1..(j-1) : s[k] # sep
         IN  <<SubSeq(s, 1, i-1)>> \o Split(SubSeq(s, i+1, Len(s)), sep)

\* strings.Contains(s, sub)
Contains(s, sub) ==
    \E i \in 1..(Len(s) + 1) :
        /\ i + Len(sub) - 1 <= Len(s)
        /\ SubSeq(s, i, i + Len(sub) - 1) = sub

\* strings.ToLower on one atom
ToLowerAtom(c) ==
    CASE c = "H" -> "h"
      [] c = "P" -> "p"
      [] c = "AE" -> "ae"
      [] OTHER -> c

\* strings.ToLower
ToLower(s) == [i \in 1..Len(s) |-> ToLowerAtom(s[i])]

\* byte order of the atoms that occur in query names and values
AtomOrd(c) ==
    CASE c = "1" -> 1
      [] c = "2" -> 2
      [] c = "=" -> 3
      [] c = "a" -> 4
      [] c = "b" -> 5
      [] c = "|" -> 6
      [] OTHER -> 7

\* the < of Go strings (lexicographic by byte)
RECURSIVE StrLess(_, _)
StrLess(s, t) ==
    IF t = <<>> THEN FALSE
    ELSE IF s = <<>> THEN TRUE
    ELSE IF AtomOrd(s[1]) # AtomOrd(t[1]) THEN AtomOrd(s[1]) < AtomOrd(t[1])
    ELSE StrLess(Tail(s), Tail(t))

\* sort.Strings on the elements of a set (the keys of a map)
RECURSIVE SortedKeys(_)
SortedKeys(S) ==
    IF S = {} THEN <<>>
    ELSE LET m == CHOOSE x \in S : \A y \in S \ {x} : StrLess(x, y)
         IN  <<m>> \o SortedKeys(S \ {m})

\* sort.Strings on a slice
SortStrings(vals) == SortSeq(vals, StrLess)

(***************************************************************************)
(* net/url: query parsing and escaping                                     *)
(***************************************************************************)

\* url.QueryEscape on one atom: reserved characters are percent-encoded
QueryEscapeAtom(c) ==
    CASE c = "|" -> "%7C"
      [] c = "=" -> "%3D"
      [] c = "&" -> "%26"
      [] c = ":" -> "%3A"
      [] c = "/" -> "%2F"
      [] OTHER -> c

\* url.QueryEscape
QueryEscape(s) == [i \in 1..Len(s) |-> QueryEscapeAtom(s[i])]

\* url.QueryUnescape on one atom
QueryUnescapeAtom(c) ==
    CASE c = "%7C" -> "|"
      [] c = "%3D" -> "="
      [] c = "%26" -> "&"
      [] c = "%3A" -> ":"
      [] c = "%2F" -> "/"
      [] OTHER -> c

\* url.QueryUnescape
QueryUnescape(s) == [i \in 1..Len(s) |-> QueryUnescapeAtom(s[i])]

\* strings.Cut(seg, "="): <<before, after>>; after is empty without a "="
CutEq(seg) ==
    IF \A i \in 1..Len(seg) : seg[i] # "=" THEN <<seg, <<>>>>
    ELSE LET i == CHOOSE j \in 1..Len(seg) : seg[j] = "=" /\ \A k \in 1..(j-1) : seg[k] # "="
         IN  <<SubSeq(seg, 1, i-1), SubSeq(seg, i+1, Len(seg))>>

\* url.ParseQuery over the "&"-separated segments: a url.Values, i.e. a map
\* from name to the list of its values in order of appearance; empty
\* segments are skipped
RECURSIVE ParseSegments(_)
ParseSegments(segs) ==
    IF segs = <<>> THEN <<>>
    ELSE LET m   == ParseSegments(SubSeq(segs, 1, Len(segs) - 1))
             seg == segs[Len(segs)]
             kv  == CutEq(seg)
             k   == QueryUnescape(kv[1])
             v   == QueryUnescape(kv[2])
         IN  IF seg = <<>> THEN m
             ELSE [x \in (DOMAIN m) \cup {k} |->
                     IF x = k
                     THEN (IF k \in DOMAIN m THEN m[k] ELSE <<>>) \o <<v>>
                     ELSE m[x]]

\* r.URL.Query()
Query(rawQuery) == ParseSegments(Split(rawQuery, "&"))

(***************************************************************************)
(* KeyGenerator (mod/cache/keygen.go)                                      *)
(***************************************************************************)

\* the configured Vary header name
AcceptEncoding == <<"AE">>

\* KeyGenerator.VaryHeaders as NewKeyGenerator sets it
VaryHeaders == <<AcceptEncoding>>

\* the "k=v" parts of one name, values sorted
PartsOfKey(query, k) ==
    LET vals == SortStrings(query[k])
    IN  [i \in 1..Len(vals) |-> QueryEscape(k) \o <<"=">> \o QueryEscape(vals[i])]

RECURSIVE PartsOfKeys(_, _)
PartsOfKeys(query, keys) ==
    IF keys = <<>> THEN <<>>
    ELSE PartsOfKey(query, keys[1]) \o PartsOfKeys(query, Tail(keys))

\* KeyGenerator.normalizeQuery
normalizeQuery(query) ==
    IF DOMAIN query = {} THEN <<>>
    ELSE Join(PartsOfKeys(query, SortedKeys(DOMAIN query)), "&")

\* the "header:value" parts of the configured Vary headers
RECURSIVE VaryParts(_, _)
VaryParts(headers, r) ==
    IF headers = <<>> THEN <<>>
    ELSE LET value == r.header[headers[1]]
         IN  (IF value # <<>> THEN <<headers[1] \o <<":">> \o value>> ELSE <<>>)
             \o VaryParts(Tail(headers), r)

\* the key components GenerateKey collects, in order
KeyParts(kg, r) ==
    LET scheme == IF r.tls THEN <<"https">> ELSE <<"http">>
        host   == IF ~kg.CaseSensitive THEN ToLower(r.host) ELSE r.host
        path   == IF ~kg.CaseSensitive THEN ToLower(r.path) ELSE r.path
    IN  <<scheme, host, path>>
        \o (IF kg.IncludeQuery /\ r.rawQuery # <<>>
            THEN <<normalizeQuery(Query(r.rawQuery))>> ELSE <<>>)
        \o VaryParts(kg.VaryHeaders, r)

\* the string GenerateKey hashes
KeyString(kg, r) == Join(KeyParts(kg, r), "|")

\* hex.EncodeToString(sha256.Sum256(s)), taken as injective
Sha256Hex(s) == <<"sha256", s>>

\* KeyGenerator.GenerateKey
GenerateKey(kg, r) == Sha256Hex(KeyString(kg, r))

(***************************************************************************)
(* Key generation on pairs of requests                                     *)
(***************************************************************************)

VARIABLES kgConfig, kgReq1, kgReq2, kgKey1, kgKey2, kgDone

kgVars == <<kgConfig, kgReq1, kgReq2, kgKey1, kgKey2, kgDone>>

NoKey == <<>>

KgHosts == {<<"h">>, <<"H">>}

KgPaths == {<<"/", "p">>, <<"/", "P">>, <<"/", "p", "|", "a", "=", "1">>}

KgRawQueries ==
    {<<>>, <<"&">>, <<"a", "=", "1">>,
     <<"a", "=", "1", "&", "b", "=", "2">>,
     <<"b", "=", "2", "&", "a", "=", "1">>,
     <<"a", "=", "2", "&", "a", "=", "1">>}

KgHeaderValues == {<<>>, <<"gzip">>, <<"br">>}

KgRequests ==
    [tls : BOOLEAN, host : KgHosts, path : KgPaths, rawQuery : KgRawQueries,
     header : [{AcceptEncoding} -> KgHeaderValues]]

KgConfigs ==
    [IncludeQuery : BOOLEAN, CaseSensitive : BOOLEAN, VaryHeaders : {VaryHeaders}]

KgInit ==
    /\ kgConfig \in KgConfigs
    /\ kgReq1 \in KgRequests
    /\ kgReq2 \in KgRequests
    /\ kgKey1 = NoKey
    /\ kgKey2 = NoKey
    /\ kgDone = FALSE

\* both requests are keyed by the same generator
GenerateKeys ==
    /\ ~kgDone
    /\ kgKey1' = GenerateKey(kgConfig, kgReq1)
    /\ kgKey2' = GenerateKey(kgConfig, kgReq2)
    /\ kgDone' = TRUE
    /\ UNCHANGED <<kgConfig, kgReq1, kgReq2>>

(***************************************************************************)
(* Meta (mod/cache/store.go)                                               *)
(***************************************************************************)

\* a Meta.IsExpired that lets an entry live one instant too long
IsExpiredLate(m, now) ==
    IF m.TTL <= 0 THEN FALSE ELSE now - m.CachedAt > m.TTL + 1

\* Meta.IsExpired at the instant now
IsExpired(m, now) ==
    IF m.TTL <= 0 THEN FALSE ELSE now - m.CachedAt > m.TTL

\* json.Marshal of a Meta: the fields in declaration order
MarshalMeta(m) ==
    <<m.ContentType, m.Encoding, m.Size, m.ETag, m.TTL, m.CachedAt,
      m.StatusCode, m.Headers>>

\* whether json.Unmarshal accepts the bytes as a Meta
ValidMetaJSON(data) == Len(data) = Len(MarshalMeta(
    [ContentType |-> <<>>, Encoding |-> <<>>, Size |-> 0, ETag |-> <<>>,
     TTL |-> 0, CachedAt |-> 0, StatusCode |-> 0, Headers |-> <<>>]))

\* json.Unmarshal into a Meta
UnmarshalMeta(data) ==
    [ContentType |-> data[1], Encoding |-> data[2], Size |-> data[3],
     ETag |-> data[4], TTL |-> data[5], CachedAt |-> data[6],
     StatusCode |-> data[7], Headers |-> data[8]]

\* a nil *Meta, a nil reader
NoMeta == [nil |-> TRUE]

NoBody == <<-1>>

\* the results of a store call: (reader, meta, found, err); err "" is nil
Result(err, found, body, meta) ==
    [err |-> err, found |-> found, body |-> body, meta |-> meta]

NoResult == Result("", FALSE, NoBody, NoMeta)

(***************************************************************************)
(* The file system under the cache root: directory entries and inodes.     *)
(* A path names an inode; an open file keeps its inode, whatever happens   *)
(* to the path afterwards.                                                 *)
(***************************************************************************)

\* the cache keys the stores are exercised with: the key whose calls are
\* followed, and a second key used along with it
Key1 == <<"a", "b", "c", "d">>

Key2 == <<"a", "b", "c", "e">>

StoreKeys == {Key1, Key2}

\* FSStore.rootDir
RootDir == <<"cache">>

\* FSStore.shardDepth (the default of NewFSStore)
ShardDepth == 2

\* the shard directories of a key: key[i*2:i*2+2] for i < shardDepth, i*2 < len(key)
ShardParts(key) ==
    LET n == Cardinality({i \in 0..(ShardDepth - 1) : i * 2 < Len(key)})
    IN  [i \in 1..n |-> SubSeq(key, (i-1)*2 + 1, (i-1)*2 + 2)]

\* FSStore.getShardedPath: the components of the path
getShardedPath(key, suffix) ==
    IF ShardDepth = 0 THEN <<RootDir, key \o <<suffix>>>>
    ELSE <<RootDir>> \o ShardParts(key) \o <<key \o <<suffix>>>>

\* FSStore.getDataPath
getDataPath(key) == getShardedPath(key, ".data")

\* FSStore.getMetaPath
getMetaPath(key) == getShardedPath(key, ".meta")

\* path + ".tmp"
TmpPath(path) == [path EXCEPT ![Len(path)] = @ \o <<".tmp">>]

\* the files the store uses for a key
PathsOf(k) ==
    <<getDataPath(k), getMetaPath(k), TmpPath(getDataPath(k)), TmpPath(getMetaPath(k))>>

PathList == PathsOf(Key1) \o PathsOf(Key2)

FsPaths == {PathList[j] : j \in 1..Len(PathList)}

\* the routines that call the filesystem store concurrently
NumProcs == 2

Procs == 1..NumProcs

NoInode == 0

\* every path and every open file can have an inode of its own
Inodes == 1..(Cardinality(FsPaths) + NumProcs)

EmptyFs == [dir |-> [p \in FsPaths |-> NoInode], ino |-> [i \in Inodes |-> <<>>]]

\* the inodes a directory entry or an open file refers to
Live(F, held) == {F.dir[p] : p \in FsPaths} \cup held

\* the same file system with its inodes numbered by the first directory entry
\* or open file (fdOf, per routine) that refers to them
Canon(F, fdOf) ==
    LET np       == Len(PathList)
        refs     == [j \in Inodes |-> IF j <= np THEN F.dir[PathList[j]] ELSE fdOf[j - np]]
        first(j) == refs[j] # NoInode /\ \A k \in 1..(j - 1) : refs[k] # refs[j]
        new(i)   == IF i = NoInode THEN NoInode
                    ELSE CHOOSE j \in Inodes : refs[j] = i /\ first(j)
    IN  [fs  |-> [dir |-> [p \in FsPaths |-> new(F.dir[p])],
                  ino |-> [j \in Inodes |-> IF first(j) THEN F.ino[refs[j]] ELSE <<>>]],
         fds |-> [q \in Procs |-> new(fdOf[q])]]

\* os.Stat(path) succeeds
Exists(F, path) == F.dir[path] # NoInode

\* open with O_CREATE|O_TRUNC (os.Create, os.WriteFile): an existing file is
\* truncated in place, a missing one gets a fresh inode
OpenTrunc(F, held, path) ==
    IF Exists(F, path)
    THEN [fs |-> [F EXCEPT !.ino[F.dir[path]] = <<>>], fd |-> F.dir[path]]
    ELSE LET i == CHOOSE j \in Inodes \ Live(F, held) :
                      \A k \in Inodes \ Live(F, held) : j <= k
         IN  [fs |-> [dir |-> [F.dir EXCEPT ![path] = i],
                      ino |-> [F.ino EXCEPT ![i] = <<>>]],
              fd |-> i]

\* one write of data at offset 0 of an open file
WriteAt0(F, fd, data) ==
    [F EXCEPT !.ino[fd] = data \o SubSeq(@, Len(data) + 1, Len(@))]

\* os.Rename(from, to); the caller checks Exists(F, from)
Rename(F, from, to) ==
    [F EXCEPT !.dir = [@ EXCEPT ![to] = F.dir[from], ![from] = NoInode]]

\* os.Remove(path), its error ignored
Remove(F, path) == [F EXCEPT !.dir[path] = NoInode]

\* the content of the file at path
Content(F, path) == F.ino[F.dir[path]]

(***************************************************************************)
(* FSStore (mod/cache/fsstore.go).  A call is a record: its position pc,   *)
(* its arguments, the file it holds open and its results.  Each operator   *)
(* below is one step of the code, from one system call to the next, and    *)
(* maps the file system and the call to the file system and the call       *)
(* after the step.                                                         *)
(***************************************************************************)

NoCall ==
    [pc |-> "idle", op |-> "none", key |-> <<>>, body |-> NoBody, meta |-> NoMeta,
     fault |-> "none", fd |-> NoInode, res |-> NoResult]

\* the entry of FSStore.Put, FSStore.Get and FSStore.Delete
PutCall(key, body, meta, fault) ==
    [NoCall EXCEPT !.pc = "PutCreate", !.op = "put", !.key = key, !.body = body,
                   !.meta = meta, !.fault = fault]

GetCall(key) == [NoCall EXCEPT !.pc = "GetStat", !.op = "get", !.key = key]

DeleteCall(key) == [NoCall EXCEPT !.pc = "DelData", !.op = "delete", !.key = key]

\* the inodes a call holds open
Held(L) == IF L.fd = NoInode THEN {} ELSE {L.fd}

\* Put: os.MkdirAll, os.Create(tmpDataPath)
PutCreate(F, held, L) ==
    IF L.fault = "create"
    THEN [fs |-> F,
          loc |-> [L EXCEPT !.pc = "ret",
                            !.res = Result("failed to create temp file", FALSE, NoBody, NoMeta)]]
    ELSE LET o == OpenTrunc(F, held, TmpPath(getDataPath(L.key)))
         IN  [fs |-> o.fs, loc |-> [L EXCEPT !.pc = "PutCopy", !.fd = o.fd]]

\* a Put that forgets meta.Size = written
PutCopyKeepSize(F, L) ==
    IF L.fault = "copy"
    THEN [fs |-> F,
          loc |-> [L EXCEPT !.pc = "PutDefer", !.fd = NoInode,
                            !.res = Result("failed to write cache data", FALSE, NoBody, NoMeta)]]
    ELSE [fs |-> WriteAt0(F, L.fd, L.body),
          loc |-> [L EXCEPT !.pc = "PutMetaOpen", !.fd = NoInode]]

\* Put: io.Copy(tmpFile, body), tmpFile.Close(), meta.Size = written
PutCopy(F, L) ==
    IF L.fault = "copy"
    THEN [fs |-> F,
          loc |-> [L EXCEPT !.pc = "PutDefer", !.fd = NoInode,
                            !.res = Result("failed to write cache data", FALSE, NoBody, NoMeta)]]
    ELSE [fs |-> WriteAt0(F, L.fd, L.body),
          loc |-> [L EXCEPT !.pc = "PutMetaOpen", !.fd = NoInode,
                            !.meta = [L.meta EXCEPT !.Size = Len(L.body)]]]

\* writeMeta: json.MarshalIndent, os.WriteFile(tmpPath) opens and truncates
PutMetaOpen(F, held, L) ==
    IF L.fault = "meta"
    THEN [fs |-> F,
          loc |-> [L EXCEPT !.pc = "PutDefer",
                            !.res = Result("failed to write metadata", FALSE, NoBody, NoMeta)]]
    ELSE LET o == OpenTrunc(F, held, TmpPath(getMetaPath(L.key)))
         IN  [fs |-> o.fs, loc |-> [L EXCEPT !.pc = "PutMetaWrite", !.fd = o.fd]]

\* writeMeta: os.WriteFile writes the JSON and closes
PutMetaWrite(F, L) ==
    [fs |-> WriteAt0(F, L.fd, MarshalMeta(L.meta)),
     loc |-> [L EXCEPT !.pc = "PutMetaRename", !.fd = NoInode]]

\* writeMeta: os.Rename(tmpPath, path)
PutMetaRename(F, L) ==
    IF Exists(F, TmpPath(getMetaPath(L.key)))
    THEN [fs |-> Rename(F, TmpPath(getMetaPath(L.key)), getMetaPath(L.key)),
          loc |-> [L EXCEPT !.pc = "PutDataRename"]]
    ELSE [fs |-> F,
          loc |-> [L EXCEPT !.pc = "PutDefer",
                            !.res = Result("failed to write metadata", FALSE, NoBody, NoMeta)]]

\* Put: os.Rename(tmpDataPath, dataPath)
PutDataRename(F, L) ==
    IF L.fault # "rename" /\ Exists(F, TmpPath(getDataPath(L.key)))
    THEN [fs |-> Rename(F, TmpPath(getDataPath(L.key)), getDataPath(L.key)),
          loc |-> [L EXCEPT !.pc = "PutDefer", !.res = Result("", FALSE, NoBody, NoMeta)]]
    ELSE [fs |-> F,
          loc |-> [L EXCEPT !.pc = "PutDefer",
                            !.res = Result("failed to rename temp file", FALSE, NoBody, NoMeta)]]

\* Put: the deferred os.Remove(tmpDataPath)
PutDefer(F, L) ==
    [fs |-> Remove(F, TmpPath(getDataPath(L.key))), loc |-> [L EXCEPT !.pc = "ret"]]

\* Get: os.Stat(dataPath)
GetStat(F, L) ==
    IF ~Exists(F, getDataPath(L.key))
    THEN [fs |-> F, loc |-> [L EXCEPT !.pc = "ret", !.res = Result("", FALSE, NoBody, NoMeta)]]
    ELSE [fs |-> F, loc |-> [L EXCEPT !.pc = "GetReadMeta"]]

\* Get: readMeta(metaPath), meta.IsExpired()
GetReadMeta(F, L, now) ==
    IF ~Exists(F, getMetaPath(L.key)) \/ ~ValidMetaJSON(Content(F, getMetaPath(L.key)))
    THEN [fs |-> F,
          loc |-> [L EXCEPT !.pc = "ret",
                            !.res = Result("failed to read metadata", FALSE, NoBody, NoMeta)]]
    ELSE LET meta == UnmarshalMeta(Content(F, getMetaPath(L.key)))
         IN  IF IsExpired(meta, now)
             THEN [fs |-> F, loc |-> [L EXCEPT !.pc = "DelData"]]
             ELSE [fs |-> F, loc |-> [L EXCEPT !.pc = "GetOpen", !.meta = meta]]

\* Get: os.Open(dataPath); the caller reads the file it is handed
GetOpen(F, L) ==
    IF ~Exists(F, getDataPath(L.key))
    THEN [fs |-> F,
          loc |-> [L EXCEPT !.pc = "ret", !.meta = NoMeta,
                            !.res = Result("failed to open cache file", FALSE, NoBody, NoMeta)]]
    ELSE [fs |-> F,
          loc |-> [L EXCEPT !.pc = "ret", !.meta = NoMeta,
                            !.res = Result("", TRUE, Content(F, getDataPath(L.key)), L.meta)]]

\* a Delete that leaves the data file
DelDataKept(F, L) == [fs |-> F, loc |-> [L EXCEPT !.pc = "DelMeta"]]

\* Delete: os.Remove(dataPath)
DelData(F, L) ==
    [fs |-> Remove(F, getDataPath(L.key)), loc |-> [L EXCEPT !.pc = "DelMeta"]]

\* Delete: os.Remove(metaPath); return nil (to Get: return not-found)
DelMeta(F, L) ==
    [fs |-> Remove(F, getMetaPath(L.key)),
     loc |-> [L EXCEPT !.pc = "ret", !.res = Result("", FALSE, NoBody, NoMeta)]]

\* the next step of a call
FsStep(F, held, L, now) ==
    CASE L.pc = "PutCreate"     -> PutCreate(F, held, L)
      [] L.pc = "PutCopy"       -> PutCopy(F, L)
      [] L.pc = "PutMetaOpen"   -> PutMetaOpen(F, held, L)
      [] L.pc = "PutMetaWrite"  -> PutMetaWrite(F, L)
      [] L.pc = "PutMetaRename" -> PutMetaRename(F, L)
      [] L.pc = "PutDataRename" -> PutDataRename(F, L)
      [] L.pc = "PutDefer"      -> PutDefer(F, L)
      [] L.pc = "GetStat"       -> GetStat(F, L)
      [] L.pc = "GetReadMeta"   -> GetReadMeta(F, L, now)
      [] L.pc = "GetOpen"       -> GetOpen(F, L)
      [] L.pc = "DelData"       -> DelData(F, L)
      [] L.pc = "DelMeta"       -> DelMeta(F, L)

\* a call run from its entry to its return with no other call in between
RECURSIVE FsRun(_, _, _)
FsRun(F, L, now) ==
    IF L.pc = "ret" THEN [fs |-> Canon(F, [q \in Procs |-> NoInode]).fs, loc |-> L]
    ELSE CHOOSE out \in {FsRun(r.fs, r.loc, now) : r \in {FsStep(F, Held(L), L, now)}} :
             TRUE

\* the path as the string filepath.Walk hands to its callback
PathString(path) == Join(path, "/")

\* strings.HasSuffix(path, ".data")
IsDataFile(path) == path[Len(path)][Len(path[Len(path)])] = ".data"

\* filepath.Base(strings.TrimSuffix(path, ".data"))
KeyOfPath(path) == SubSeq(path[Len(path)], 1, Len(path[Len(path)]) - 1)

\* FSStore.PurgePrefix: filepath.Walk over the files under rootDir; a file
\* that is gone when the walk comes to it is passed over
RECURSIVE PurgeWalk(_, _, _, _)
PurgeWalk(F, paths, prefix, now) ==
    IF paths = <<>> THEN F
    ELSE IF /\ Exists(F, paths[1])
            /\ IsDataFile(paths[1])
            /\ Contains(PathString(paths[1]), prefix)
    THEN CHOOSE out \in {PurgeWalk(r.fs, Tail(paths), prefix, now) :
                             r \in {FsRun(F, DeleteCall(KeyOfPath(paths[1])), now)}} : TRUE
    ELSE PurgeWalk(F, Tail(paths), prefix, now)

FsPurge(F, prefix, now) ==
    [fs |-> PurgeWalk(F, PathList, prefix, now), res |-> Result("", FALSE, NoBody, NoMeta)]

(***************************************************************************)
(* RedisStore (mod/cache/redisstore.go).  The server holds, per key, a     *)
(* value and the instant it expires.                                       *)
(***************************************************************************)

\* RedisStoreConfig.Prefix as NewRedisStore defaults it
RedisPrefix == <<"zoraxy:cache:">>

\* RedisStoreConfig.MaxSize, in bytes
RedisMaxSize == 2

\* the TTL Put gives an entry whose meta.TTL is <= 0: one hour, in ticks
RedisDefaultTTL == 1

\* fullKey + suffix
RedisKey(key, suffix) == RedisPrefix \o key \o <<suffix>>

RedisKeys == {RedisKey(k, s) : k \in StoreKeys, s \in {":data", ":meta"}}

NoVal == [val |-> <<>>, exp |-> 0]

EmptyRedis == [rk \in RedisKeys |-> NoVal]

\* GET finds the key
RedisHas(R, rk, now) == now < R[rk].exp

\* the server drops the keys whose time has come
RedisExpire(R, now) == [rk \in RedisKeys |-> IF RedisHas(R, rk, now) THEN R[rk] ELSE NoVal]

\* RedisStore.Delete: DEL of both keys
RedisDelete(R, key) ==
    [store |-> [R EXCEPT ![RedisKey(key, ":data")] = NoVal,
                         ![RedisKey(key, ":meta")] = NoVal],
     res |-> Result("", FALSE, NoBody, NoMeta)]

\* strings.HasPrefix
HasPrefix(s, prefix) == Len(prefix) <= Len(s) /\ SubSeq(s, 1, Len(prefix)) = prefix

\* the base key PurgePrefix recovers from a key SCAN returned: the store's
\* prefix and the :data or :meta suffix taken off
BaseKey(rk) ==
    LET baseKey == IF Len(rk) > Len(RedisPrefix) THEN SubSeq(rk, Len(RedisPrefix) + 1, Len(rk))
                   ELSE rk
    IN  IF Len(baseKey) > 1 /\ baseKey[Len(baseKey)] \in {":data", ":meta"}
        THEN SubSeq(baseKey, 1, Len(baseKey) - 1)
        ELSE baseKey

\* a purge that deletes one of the base keys and stops
RedisDeleteOne(R, keys) ==
    IF keys = {} THEN R ELSE RedisDelete(R, CHOOSE x \in keys : TRUE).store

RECURSIVE RedisDeleteAll(_, _)
RedisDeleteAll(R, keys) ==
    IF keys = {} THEN R
    ELSE LET k == CHOOSE x \in keys : TRUE
         IN  RedisDeleteAll(RedisDelete(R, k).store, keys \ {k})

\* RedisStore.PurgePrefix: SCAN with the pattern prefix + p + "*", then
\* Delete of every base key; fault "scan" is a failed SCAN
RedisPurge(R, prefix, fault, now) ==
    IF fault = "scan"
    THEN [store |-> R, res |-> Result("failed to scan Redis keys", FALSE, NoBody, NoMeta)]
    ELSE [store |-> RedisDeleteAll(R, {BaseKey(rk) : rk \in
                        {x \in RedisKeys : /\ RedisHas(R, x, now)
                                           /\ HasPrefix(x, RedisPrefix \o prefix)}}),
          res |-> Result("", FALSE, NoBody, NoMeta)]

\* RedisStore.Get
RedisGet(R, key, now) ==
    IF ~RedisHas(R, RedisKey(key, ":data"), now) \/ ~RedisHas(R, RedisKey(key, ":meta"), now)
    THEN [store |-> R, res |-> Result("", FALSE, NoBody, NoMeta)]
    ELSE IF ~ValidMetaJSON(R[RedisKey(key, ":meta")].val)
    THEN [store |-> R, res |-> Result("failed to unmarshal metadata", FALSE, NoBody, NoMeta)]
    ELSE LET meta == UnmarshalMeta(R[RedisKey(key, ":meta")].val)
         IN  IF IsExpired(meta, now)
             THEN [store |-> RedisDelete(R, key).store,
                   res |-> Result("", FALSE, NoBody, NoMeta)]
             ELSE [store |-> R,
                   res |-> Result("", TRUE, R[RedisKey(key, ":data")].val, meta)]

\* RedisStore.Put; fault "exec" is a failed pipeline
RedisPut(R, key, body, meta, fault, now) ==
    IF Len(body) > RedisMaxSize
    THEN [store |-> R, res |-> Result("cache entry exceeds maximum size", FALSE, NoBody, NoMeta)]
    ELSE IF fault = "exec"
    THEN [store |-> R, res |-> Result("failed to store in Redis", FALSE, NoBody, NoMeta)]
    ELSE LET stored == [meta EXCEPT !.Size = Len(body)]
             ttl    == IF meta.TTL <= 0 THEN RedisDefaultTTL ELSE meta.TTL
         IN  [store |-> [R EXCEPT ![RedisKey(key, ":data")] = [val |-> body, exp |-> now + ttl],
                                  ![RedisKey(key, ":meta")] =
                                      [val |-> MarshalMeta(stored), exp |-> now + ttl]],
              res |-> Result("", FALSE, NoBody, NoMeta)]

(***************************************************************************)
(* A store used by one caller at a time: the configured backend, the       *)
(* clock, and for each key the last call made on it.                       *)
(***************************************************************************)

VARIABLES stKind, fs, redis, now, stLast, stGet

stVars == <<stKind, fs, redis, now, stLast, stGet>>

\* the calls in progress when several routines use the filesystem store, and
\* the entry the key held when they last started
VARIABLES calls, fsBase

fcVars == <<calls, fsBase>>

\* the middleware: its configuration, its store, its counters, the exchange
\* it has just served, the number of requests it has served, and for each
\* entry the method of the request that stored it and what its client got
VARIABLES mwCfg, mwStore, mwStats, mwLast, mwCount, mwPurge, mwFrom

mwVars == <<mwCfg, mwStore, mwStats, mwLast, mwCount, mwPurge, mwFrom>>

\* the worker pool: its job channel, whether the channel is closed and the
\* context cancelled, each worker's position and job, the position of Stop,
\* the store the jobs name, the requests the middleware is serving, and the
\* jobs accepted before Stop was called and those a worker has taken up
VARIABLES wkQueue, wkClosed, wkCancelled, wkPc, wkJob, wkStop, wkStore, wkReq, wkLog

wkVars == <<wkQueue, wkClosed, wkCancelled, wkPc, wkJob, wkStop, wkStore, wkReq, wkLog>>

\* a call of Pipeline.Apply: its arguments and what it returned
VARIABLES plIn, plOut

plVars == <<plIn, plOut>>

\* the Stats of a middleware used by several requests at once: its mutex, its
\* counters, where each request is in the call it makes, and the calls made
VARIABLES ctMu, ctStats, ctProc, ctCalls

ctVars == <<ctMu, ctStats, ctProc, ctCalls>>

\* a call of VarnishStore.Delete: its arguments with the answers of the
\* endpoints, and what it sent and returned
VARIABLES vnIn, vnOut

vnVars == <<vnIn, vnOut>>

\* the components that are not stores, the middleware or the worker pool
opVars == <<plVars, ctVars, vnVars>>

\* the instants the clock runs through
MaxTime == 2

\* what callers put: bodies and metadata
Bodies == {<<1>>, <<2, 3>>, <<4, 5, 6>>}

\* TTL and CachedAt - now of the metadata put: no expiry, fresh, already
\* expired, stamped ahead of the clock
Metas(t) ==
    {[ContentType |-> <<"text/html">>, Encoding |-> <<>>, Size |-> 0,
      ETag |-> <<"e">>, TTL |-> x[1], CachedAt |-> t + x[2],
      StatusCode |-> 200, Headers |-> <<>>] :
        x \in {<<0, 0>>, <<1, 0>>, <<1, -2>>, <<1, 1>>}}

FsFaults == {"none", "create", "copy", "meta", "rename"}

RedisFaults == {"none", "exec"}

\* the arguments of a Put and the fault it meets
PutArgs(k, t, faults) ==
    IF k = Key1
    THEN [body : Bodies, meta : Metas(t), fault : faults]
    ELSE [body : {<<7>>},
          meta : {m \in Metas(0) : m.TTL = 0},
          fault : {"none"}]

LastNone ==
    [op |-> "none", body |-> NoBody, meta |-> NoMeta, at |-> 0, err |-> "", found |-> FALSE]

NoGet == [none |-> TRUE]

StInit(kinds) ==
    /\ stKind \in kinds
    /\ fs = EmptyFs
    /\ redis = EmptyRedis
    /\ now = 0
    /\ stLast = LastNone
    /\ stGet = NoGet

\* the record of the last call on Key1
LastPut(a, res) ==
    IF res.err = ""
    THEN [op |-> "put", body |-> a.body, meta |-> a.meta, at |-> now, err |-> "",
          found |-> FALSE]
    ELSE [op |-> "put", body |-> NoBody, meta |-> NoMeta, at |-> now, err |-> res.err,
          found |-> FALSE]

LastGet(res) ==
    [op |-> "get", body |-> res.body, meta |-> res.meta, at |-> now, err |-> res.err,
     found |-> res.found]

Followed(k, last) == IF k = Key1 THEN last ELSE stLast

\* the prefixes purged: of both keys, of one, inside a key, of none
PurgePrefixes == {<<"a", "b", "c">>, Key1, <<"c", "e">>, <<"x">>, RootDir}

\* the Get a caller would be answered now
WouldGet(kind, F, R, k, t) ==
    IF kind = "redis" THEN RedisGet(R, k, t).res ELSE FsRun(F, GetCall(k), t).loc.res

\* the record of a Delete, with whether a Get found the key before it
LastDelete(res) ==
    [op |-> "delete", body |-> NoBody, meta |-> NoMeta, at |-> now, err |-> res.err,
     found |-> FALSE, had |-> WouldGet(stKind, fs, redis, Key1, now).found]

\* the record of a purge: its prefix, the keys with that prefix that a Get
\* found before it, and those a Get finds when the purge has returned
LastPurge(prefix, res, F, R) ==
    [op |-> "purge", body |-> NoBody, meta |-> NoMeta, at |-> now, err |-> res.err,
     found |-> FALSE, prefix |-> prefix,
     purged |-> {k \in StoreKeys : /\ HasPrefix(k, prefix)
                                   /\ WouldGet(stKind, fs, redis, k, now).found},
     left |-> {k \in StoreKeys : HasPrefix(k, prefix) /\ WouldGet(stKind, F, R, k, now).found}]

\* the Get that has just returned, with the call that preceded it on the key
GotNow(k, res) ==
    IF k = Key1 THEN [key |-> k, res |-> res, prev |-> stLast, at |-> now] ELSE NoGet

\* FSStore.Put
FsPut ==
    /\ stKind = "fs"
    /\ \E k \in StoreKeys : \E a \in PutArgs(k, now, FsFaults) :
          \E r \in {FsRun(fs, PutCall(k, a.body, a.meta, a.fault), now)} :
              /\ fs' = r.fs
              /\ stLast' = Followed(k, LastPut(a, r.loc.res))
    /\ stGet' = NoGet
    /\ UNCHANGED <<kgVars, opVars, wkVars, fcVars, mwVars, stKind, redis, now>>

\* FSStore.Get
FsGet ==
    /\ stKind = "fs"
    /\ \E k \in StoreKeys :
          \E r \in {FsRun(fs, GetCall(k), now)} :
              /\ fs' = r.fs
              /\ stLast' = Followed(k, LastGet(r.loc.res))
              /\ stGet' = GotNow(k, r.loc.res)
    /\ UNCHANGED <<kgVars, opVars, wkVars, fcVars, mwVars, stKind, redis, now>>

\* FSStore.Delete
FsDelete ==
    /\ stKind = "fs"
    /\ \E k \in StoreKeys :
          \E r \in {FsRun(fs, DeleteCall(k), now)} :
              /\ fs' = r.fs
              /\ stLast' = Followed(k, LastDelete(r.loc.res))
    /\ stGet' = NoGet
    /\ UNCHANGED <<kgVars, opVars, wkVars, fcVars, mwVars, stKind, redis, now>>

\* RedisStore.Put
RdPut ==
    /\ stKind = "redis"
    /\ \E k \in StoreKeys : \E a \in PutArgs(k, now, RedisFaults) :
          LET r == RedisPut(redis, k, a.body, a.meta, a.fault, now)
          IN  /\ redis' = r.store
              /\ stLast' = Followed(k, LastPut(a, r.res))
    /\ stGet' = NoGet
    /\ UNCHANGED <<kgVars, opVars, wkVars, fcVars, mwVars, stKind, fs, now>>

\* RedisStore.Get
RdGet ==
    /\ stKind = "redis"
    /\ \E k \in StoreKeys :
          LET r == RedisGet(redis, k, now)
          IN  /\ redis' = r.store
              /\ stLast' = Followed(k, LastGet(r.res))
              /\ stGet' = GotNow(k, r.res)
    /\ UNCHANGED <<kgVars, opVars, wkVars, fcVars, mwVars, stKind, fs, now>>

\* RedisStore.Delete
RdDelete ==
    /\ stKind = "redis"
    /\ \E k \in StoreKeys :
          LET r == RedisDelete(redis, k)
          IN  /\ redis' = r.store
              /\ stLast' = Followed(k, LastDelete(r.res))
    /\ stGet' = NoGet
    /\ UNCHANGED <<kgVars, opVars, wkVars, fcVars, mwVars, stKind, fs, now>>

\* FSStore.PurgePrefix
FsPurgePrefix ==
    /\ stKind = "fs"
    /\ \E prefix \in PurgePrefixes :
          \E r \in {FsPurge(fs, prefix, now)} :
              /\ fs' = r.fs
              /\ stLast' = LastPurge(prefix, r.res, r.fs, redis)
    /\ stGet' = NoGet
    /\ UNCHANGED <<kgVars, opVars, wkVars, fcVars, mwVars, stKind, redis, now>>

\* RedisStore.PurgePrefix
RdPurgePrefix ==
    /\ stKind = "redis"
    /\ \E prefix \in PurgePrefixes, fault \in {"none", "scan"} :
          LET r == RedisPurge(redis, prefix, fault, now)
          IN  /\ redis' = r.store
              /\ stLast' = LastPurge(prefix, r.res, fs, r.store)
    /\ stGet' = NoGet
    /\ UNCHANGED <<kgVars, opVars, wkVars, fcVars, mwVars, stKind, fs, now>>

\* time passes
Tick ==
    /\ now < MaxTime
    /\ now' = now + 1
    /\ redis' = RedisExpire(redis, now + 1)
    /\ stGet' = NoGet
    /\ UNCHANGED <<kgVars, opVars, wkVars, fcVars, mwVars, stKind, fs, stLast>>

StNext ==
    \/ FsPut \/ FsGet \/ FsDelete \/ FsPurgePrefix
    \/ RdPut \/ RdGet \/ RdDelete \/ RdPurgePrefix
    \/ Tick

(***************************************************************************)
(* The filesystem store called by several routines at once.  FSStore takes *)
(* no lock (its mu is never locked), so the calls interleave at every      *)
(* system call.  The routines make one call each, are joined, and start    *)
(* again; fsBase is the entry the key held when they were last joined.     *)
(***************************************************************************)

NoEntry == [none |-> TRUE]

\* the entry a key holds on disk: the data file and the metadata beside it
EntryAt(F, k) ==
    IF /\ Exists(F, getDataPath(k))
       /\ Exists(F, getMetaPath(k))
       /\ ValidMetaJSON(Content(F, getMetaPath(k)))
    THEN [body |-> Content(F, getDataPath(k)),
          meta |-> UnmarshalMeta(Content(F, getMetaPath(k)))]
    ELSE NoEntry

\* what the routines put: two entries that do not expire and one whose TTL
\* has already elapsed when it is put
ConcPuts ==
    {[body |-> x[1],
      meta |-> [ContentType |-> <<"text/html">>, Encoding |-> <<>>, Size |-> 0,
                ETag |-> x[2], TTL |-> x[3], CachedAt |-> x[4],
                StatusCode |-> 200, Headers |-> <<>>]] :
       x \in {<<<<1, 1>>, <<"e1">>, 0, 0>>, <<<<2>>, <<"e2">>, 0, 0>>,
              <<<<3>>, <<"e3">>, 1, -2>>}}

FcInit ==
    /\ calls = [p \in Procs |-> NoCall]
    /\ fsBase = NoEntry

\* the files the routines hold open
FdOf(p, L) == [q \in Procs |-> IF q = p THEN L.fd ELSE calls[q].fd]

AllHeld == {calls[q].fd : q \in Procs} \ {NoInode}

\* routine p is at step pc of its call
At(p, pc) == stKind = "fsconc" /\ calls[p].pc = pc

\* the step of routine p takes effect
Apply(p, r) ==
    \E c \in {Canon(r.fs, FdOf(p, r.loc))} :
        /\ fs' = c.fs
        /\ calls' = [q \in Procs |->
                        [(IF q = p THEN r.loc ELSE calls[q]) EXCEPT !.fd = c.fds[q]]]
        /\ UNCHANGED <<kgVars, opVars, wkVars, mwVars, stKind, redis, now, stLast, stGet, fsBase>>

\* a routine enters FSStore.Put
CallPut(p) ==
    /\ At(p, "idle")
    /\ \E a \in ConcPuts :
          calls' = [calls EXCEPT ![p] = PutCall(Key1, a.body, a.meta, "none")]
    /\ UNCHANGED <<kgVars, opVars, wkVars, mwVars, stVars, fsBase>>

\* a routine enters FSStore.Get
CallGet(p) ==
    /\ At(p, "idle")
    /\ calls' = [calls EXCEPT ![p] = GetCall(Key1)]
    /\ UNCHANGED <<kgVars, opVars, wkVars, mwVars, stVars, fsBase>>

\* a routine enters FSStore.Delete
CallDelete(p) ==
    /\ At(p, "idle")
    /\ calls' = [calls EXCEPT ![p] = DeleteCall(Key1)]
    /\ UNCHANGED <<kgVars, opVars, wkVars, mwVars, stVars, fsBase>>

\* the steps of Put
DoPutCreate(p) == At(p, "PutCreate") /\ Apply(p, PutCreate(fs, AllHeld, calls[p]))

DoPutCopy(p) == At(p, "PutCopy") /\ Apply(p, PutCopy(fs, calls[p]))

DoPutMetaOpen(p) == At(p, "PutMetaOpen") /\ Apply(p, PutMetaOpen(fs, AllHeld, calls[p]))

DoPutMetaWrite(p) == At(p, "PutMetaWrite") /\ Apply(p, PutMetaWrite(fs, calls[p]))

DoPutMetaRename(p) == At(p, "PutMetaRename") /\ Apply(p, PutMetaRename(fs, calls[p]))

DoPutDataRename(p) == At(p, "PutDataRename") /\ Apply(p, PutDataRename(fs, calls[p]))

DoPutDefer(p) == At(p, "PutDefer") /\ Apply(p, PutDefer(fs, calls[p]))

\* the steps of Get
DoGetStat(p) == At(p, "GetStat") /\ Apply(p, GetStat(fs, calls[p]))

DoGetReadMeta(p) == At(p, "GetReadMeta") /\ Apply(p, GetReadMeta(fs, calls[p], now))

DoGetOpen(p) == At(p, "GetOpen") /\ Apply(p, GetOpen(fs, calls[p]))

\* the steps of Delete, called directly or by Get on an expired entry
DoDelData(p) == At(p, "DelData") /\ Apply(p, DelData(fs, calls[p]))

DoDelMeta(p) == At(p, "DelMeta") /\ Apply(p, DelMeta(fs, calls[p]))

\* every routine has returned: they are joined and may call again
WaitAll ==
    /\ stKind = "fsconc"
    /\ \A p \in Procs : calls[p].pc = "ret"
    /\ calls' = [p \in Procs |-> NoCall]
    /\ fsBase' = EntryAt(fs, Key1)
    /\ UNCHANGED <<kgVars, opVars, wkVars, mwVars, stVars>>

FcNext ==
    \/ \E p \in Procs : CallPut(p)
    \/ \E p \in Procs : CallGet(p)
    \/ \E p \in Procs : CallDelete(p)
    \/ \E p \in Procs : DoPutCreate(p)
    \/ \E p \in Procs : DoPutCopy(p)
    \/ \E p \in Procs : DoPutMetaOpen(p)
    \/ \E p \in Procs : DoPutMetaWrite(p)
    \/ \E p \in Procs : DoPutMetaRename(p)
    \/ \E p \in Procs : DoPutDataRename(p)
    \/ \E p \in Procs : DoPutDefer(p)
    \/ \E p \in Procs : DoGetStat(p)
    \/ \E p \in Procs : DoGetReadMeta(p)
    \/ \E p \in Procs : DoGetOpen(p)
    \/ \E p \in Procs : DoDelData(p)
    \/ \E p \in Procs : DoDelMeta(p)
    \/ WaitAll

(***************************************************************************)
(* The transform pipeline (mod/optimizer).  A transform is its             *)
(* CompressConfig; a Pipeline holds its transforms; NoPipeline is a nil    *)
(* *Pipeline.                                                              *)
(***************************************************************************)

NoPipeline == [nil |-> TRUE]

\* CompressConfig.MinSize of the configured transform, in bytes
MinSize == 2

\* the compressor: each run of n equal bytes v becomes the two bytes -n, v
RECURSIVE Deflate(_)
Deflate(data) ==
    IF data = <<>> THEN <<>>
    ELSE LET n == CHOOSE j \in 1..Len(data) :
                      /\ \A i \in 1..j : data[i] = data[1]
                      /\ j = Len(data) \/ data[j + 1] # data[1]
         IN  <<0 - n, data[1]>> \o Deflate(SubSeq(data, n + 1, Len(data)))

\* CompressTransform emitting the compressed bytes when they are as many as
\* the bytes read
CompressTransformNoGain(config, data, meta) ==
    IF meta.Encoding # <<>> /\ meta.Encoding # <<"identity">>
    THEN [body |-> data, meta |-> meta]
    ELSE IF Len(data) < config.MinSize \/ config.Type \notin {"gzip", "br"}
    THEN [body |-> data, meta |-> [meta EXCEPT !.Size = Len(data)]]
    ELSE IF Len(Deflate(data)) > Len(data)
    THEN [body |-> data, meta |-> [meta EXCEPT !.Size = Len(data)]]
    ELSE [body |-> Deflate(data),
          meta |-> [meta EXCEPT !.Encoding = <<config.Type>>, !.Size = Len(Deflate(data))]]

\* the Transform CompressTransform(config) returns, on a buffered input
CompressTransform(config, data, meta) ==
    IF meta.Encoding # <<>> /\ meta.Encoding # <<"identity">>
    THEN [body |-> data, meta |-> meta]
    ELSE IF Len(data) < config.MinSize \/ config.Type \notin {"gzip", "br"}
    THEN [body |-> data, meta |-> [meta EXCEPT !.Size = Len(data)]]
    ELSE IF Len(Deflate(data)) >= Len(data)
    THEN [body |-> data, meta |-> [meta EXCEPT !.Size = Len(data)]]
    ELSE [body |-> Deflate(data),
          meta |-> [meta EXCEPT !.Encoding = <<config.Type>>, !.Size = Len(Deflate(data))]]

\* Pipeline.Apply: the transforms in sequence
RECURSIVE PipelineApply(_, _, _)
PipelineApply(transforms, data, meta) ==
    IF transforms = <<>> THEN [body |-> data, meta |-> meta]
    ELSE LET o == CompressTransform(transforms[1], data, meta)
         IN  PipelineApply(Tail(transforms), o.body, o.meta)

\* Pipeline.ApplyToBytes; a cancelled context stops a non-empty pipeline
ApplyToBytes(p, data, meta, cancelled) ==
    IF cancelled /\ p.transforms # <<>>
    THEN [err |-> "context canceled", body |-> NoBody, meta |-> NoMeta]
    ELSE [err |-> "", body |-> PipelineApply(p.transforms, data, meta).body,
          meta |-> PipelineApply(p.transforms, data, meta).meta]

\* NewPipeline(GzipTransform(level))
GzipPipeline == [transforms |-> <<[Type |-> "gzip", MinSize |-> MinSize]>>]

(***************************************************************************)
(* Readers as objects.  A heap is the sequence of the readers that exist;  *)
(* a reader is named by its index.  Its kind is "plain" (an io.Reader      *)
(* without Close), "nop" (io.NopCloser: Close does nothing more than being *)
(* called) or "file" (a ReadCloser whose Read fails once it is closed).    *)
(* A reader made by io.NopCloser(r) reads the bytes of r, named by "of".   *)
(***************************************************************************)

NewReader(kind, data, fails) ==
    [kind |-> kind, data |-> data, pos |-> 0, closed |-> FALSE, fails |-> fails, of |-> 0]

\* the reader whose bytes reader r yields
Base(H, r) == IF H[r].of = 0 THEN r ELSE H[r].of

\* the type assertion in.(io.ReadCloser)
IsReadCloser(H, r) == H[r].kind # "plain"

\* the bytes reader r has not yet yielded
Rest(H, r) == SubSeq(H[Base(H, r)].data, H[Base(H, r)].pos + 1, Len(H[Base(H, r)].data))

\* whether Read of reader r returns an error other than io.EOF
ReadFails(H, r) ==
    \/ H[Base(H, r)].fails
    \/ H[r].kind = "file" /\ H[r].closed

\* io.Copy(&buf, in): the bytes read, and the heap with reader r at its end
ioCopy(H, r) ==
    IF ReadFails(H, r)
    THEN [err |-> "read", data |-> <<>>, heap |-> H]
    ELSE [err |-> "", data |-> Rest(H, r),
          heap |-> [H EXCEPT ![Base(H, r)].pos = Len(H[Base(H, r)].data)]]

\* rc.Close()
CloseReader(H, r) == [H EXCEPT ![r].closed = TRUE]

\* what a transform returns: (reader, meta, err) and the heap it leaves
Transformed(H, r, meta, err) == [heap |-> H, reader |-> r, meta |-> meta, err |-> err]

\* io.NopCloser(&buf) of a fresh buffer holding data
NopCloserOf(H, data, meta) ==
    Transformed(Append(H, NewReader("nop", data, FALSE)), Len(H) + 1, meta, "")

\* "if rc, ok := in.(io.ReadCloser); ok { return rc, meta, nil };
\*  return io.NopCloser(in), meta, nil"
PassThrough(H, r, meta) ==
    IF IsReadCloser(H, r) THEN Transformed(H, r, meta, "")
    ELSE Transformed(Append(H, [NewReader("nop", <<>>, FALSE) EXCEPT !.of = Base(H, r)]),
                  Len(H) + 1, meta, "")

\* the Transform CompressTransform(config) returns, on readers
CompressStage(config, H, in, meta) ==
    IF meta.Encoding # <<>> /\ meta.Encoding # <<"identity">>
    THEN PassThrough(H, in, meta)
    ELSE LET c == ioCopy(H, in)
         IN  IF c.err # "" THEN Transformed(c.heap, 0, NoMeta, "failed to read input")
             ELSE LET o == CompressTransform(config, c.data, meta)
                  IN  NopCloserOf(c.heap, o.body, o.meta)

\* minifier.Minify: the bytes written, the bytes 9 (white space) dropped, or
\* an error when the parser meets a byte 0
RECURSIVE Strip(_)
Strip(data) ==
    IF data = <<>> THEN <<>>
    ELSE IF data[1] = 9 THEN Strip(Tail(data))
    ELSE <<data[1]>> \o Strip(Tail(data))

Minify(data) ==
    IF \E i \in 1..Len(data) : data[i] = 0
    THEN [err |-> "parse", out |-> <<>>]
    ELSE [err |-> "", out |-> Strip(data)]

\* shouldMinify(contentType, config)
shouldMinify(contentType, config) == config.HTML /\ contentType = "text/html"

\* the Transform MinifyTransform(config) returns, on readers.  ContentType
\* is held as its parts between ";"; ahead tells whether the minifier had
\* read the whole buffer when it failed, or none of it
MinifyStage(config, H, in, meta, ahead) ==
    IF meta.ContentType = <<>> THEN PassThrough(H, in, meta)
    ELSE IF ~shouldMinify(meta.ContentType[1], config) THEN PassThrough(H, in, meta)
    ELSE LET c == ioCopy(H, in)
         IN  IF c.err # "" THEN Transformed(c.heap, 0, NoMeta, "failed to read input")
             ELSE IF Minify(c.data).err # ""
             THEN IF IsReadCloser(c.heap, in) THEN Transformed(c.heap, in, meta, "")
                  ELSE NopCloserOf(c.heap, IF ahead THEN <<>> ELSE c.data, meta)
             ELSE NopCloserOf(c.heap, Minify(c.data).out,
                              [meta EXCEPT !.Size = Len(Minify(c.data).out)])

\* transform(ctx, currentReader, currentMeta)
RunTransform(t, H, in, meta, ahead) ==
    IF t.kind = "compress" THEN CompressStage(t.config, H, in, meta)
    ELSE MinifyStage(t.config, H, in, meta, ahead)

\* "if rc, ok := currentReader.(io.ReadCloser); ok { rc.Close() }"
CloseIfCloser(H, r) == IF IsReadCloser(H, r) THEN CloseReader(H, r) ELSE H

\* what Apply returns, with the transform calls it made in order
Applied(H, r, meta, err, log) ==
    [heap |-> H, reader |-> r, meta |-> meta, err |-> err, log |-> log]

\* the loop of Pipeline.Apply from its i-th transform on (i counts from 1;
\* the source's index is i - 1); the context is done from the check before
\* transform cancelAt on, never if cancelAt = 0
RECURSIVE ApplyFrom(_, _, _, _, _, _, _, _)
ApplyFrom(ts, i, H, cur, meta, cancelAt, ahead, log) ==
    IF i > Len(ts)
    THEN LET o == PassThrough(H, cur, meta)
         IN  Applied(o.heap, o.reader, meta, "", log)
    ELSE IF cancelAt # 0 /\ cancelAt <= i
    THEN Applied(CloseIfCloser(H, cur), 0, NoMeta, "context canceled", log)
    ELSE LET o == RunTransform(ts[i], H, cur, meta, ahead)
             call == [transform |-> ts[i], reader |-> cur, meta |-> meta,
                      out |-> o.reader, outMeta |-> o.meta, err |-> o.err]
         IN  IF o.err # ""
             THEN Applied(IF i > 1 THEN CloseIfCloser(o.heap, cur) ELSE o.heap,
                          0, NoMeta, o.err, Append(log, call))
             ELSE ApplyFrom(ts, i + 1,
                            IF i > 1 THEN CloseIfCloser(o.heap, cur) ELSE o.heap,
                            o.reader, o.meta, cancelAt, ahead, Append(log, call))

\* Pipeline.Apply with every transform but the first
ApplyReaderSkipFirst(p, H, in, meta, cancelAt, ahead) ==
    IF p.transforms = <<>>
    THEN LET o == PassThrough(H, in, meta) IN Applied(o.heap, o.reader, meta, "", <<>>)
    ELSE ApplyFrom(Tail(p.transforms), 1, H, in, meta, cancelAt, ahead, <<>>)

\* Pipeline.Apply without the cancellation check before each transform
ApplyReaderUncancelled(p, H, in, meta, cancelAt, ahead) ==
    IF p.transforms = <<>>
    THEN LET o == PassThrough(H, in, meta) IN Applied(o.heap, o.reader, meta, "", <<>>)
    ELSE ApplyFrom(p.transforms, 1, H, in, meta, 0, ahead, <<>>)

\* Pipeline.Apply(ctx, in, meta)
ApplyReader(p, H, in, meta, cancelAt, ahead) ==
    IF p.transforms = <<>>
    THEN LET o == PassThrough(H, in, meta) IN Applied(o.heap, o.reader, meta, "", <<>>)
    ELSE ApplyFrom(p.transforms, 1, H, in, meta, cancelAt, ahead, <<>>)

\* the longest pipeline applied
MaxStages == 2

\* the transforms a pipeline is built from: GzipTransform, BrotliTransform
\* and MinifyTransform with HTML handled
PlStages ==
    {[kind |-> "compress", config |-> [Type |-> "gzip", MinSize |-> MinSize]],
     [kind |-> "compress", config |-> [Type |-> "br", MinSize |-> MinSize]],
     [kind |-> "minify", config |-> [HTML |-> TRUE]]}

PlPipelines == {[transforms |-> ts] : ts \in UNION {[1..n -> PlStages] : n \in 0..MaxStages}}

\* the bodies applied to: below MinSize, compressible, without gain, with a
\* byte the minifier rejects, with a byte the minifier drops
PlBodies == {<<1>>, <<1, 1>>, <<1, 1, 1>>, <<1, 2, 3>>, <<0, 1, 1>>, <<9, 1, 1, 1>>}

PlMetas ==
    {[ContentType |-> ct, Encoding |-> enc, Size |-> 0, ETag |-> <<"e">>, TTL |-> 1,
      CachedAt |-> 0, StatusCode |-> 200, Headers |-> <<>>] :
        ct \in {<<>>, <<"text/html">>, <<"text/html", "charset=utf-8">>, <<"image/png">>},
        enc \in {<<>>, <<"identity">>, <<"gzip">>}}

\* the arguments of a call of Apply: the pipeline, the reader (its bytes,
\* its kind, whether its Read fails), the meta, and when the context is done
PlInputs ==
    [p : PlPipelines, data : PlBodies, kind : {"plain", "nop", "file"}, fails : BOOLEAN,
     meta : PlMetas, cancelAt : 0..MaxStages, ahead : BOOLEAN]

NoApplied == [none |-> TRUE]

PlInit ==
    /\ plIn \in PlInputs
    /\ plOut = NoApplied

PlOff ==
    /\ plIn = [none |-> TRUE]
    /\ plOut = NoApplied

\* one call of Pipeline.Apply on a fresh reader, the only one of its heap
PlApply ==
    /\ plOut = NoApplied
    /\ plIn # [none |-> TRUE]
    /\ plOut' = ApplyReader(plIn.p, <<NewReader(plIn.kind, plIn.data, plIn.fails)>>, 1,
                            plIn.meta, plIn.cancelAt, plIn.ahead)
    /\ UNCHANGED <<kgVars, stVars, fcVars, mwVars, wkVars, ctVars, vnVars, plIn>>

PlNext == PlApply

(***************************************************************************)
(* The cache middleware (mod/cachemiddleware/middleware.go), serving one  *)
(* request at a time.  A header map gives each name the list of its       *)
(* values; names and values are strings.                                  *)
(***************************************************************************)

HeaderNames ==
    {<<"Authorization">>, <<"Cache-Control">>, <<"Set-Cookie">>, <<"Pragma">>,
     <<"Content-Type">>, <<"Content-Encoding">>, <<"ETag">>, <<"Last-Modified">>,
     <<"Vary">>, <<"X-Cache">>, <<"Age">>, AcceptEncoding}

\* make(http.Header)
NoHeaders == [n \in HeaderNames |-> <<>>]

\* http.Header.Get: the first value of the name, "" when there is none
HeaderGet(h, name) == IF h[name] = <<>> THEN <<>> ELSE h[name][1]

\* the client's http.ResponseWriter: its header map, and what has gone out
NewWriter == [hdr |-> NoHeaders, wrote |-> FALSE, status |-> 0, sent |-> NoHeaders, body |-> <<>>]

\* w.Header().Set, w.Header().Add: no effect on headers already sent
WHeaderSet(w, name, value) == [w EXCEPT !.hdr[name] = <<value>>]

WHeaderAdd(w, name, value) == [w EXCEPT !.hdr[name] = Append(@, value)]

\* w.WriteHeader: the first call sends the status and the headers, later
\* calls are ignored
WWriteHeader(w, code) ==
    IF w.wrote THEN w ELSE [w EXCEPT !.wrote = TRUE, !.status = code, !.sent = w.hdr]

\* w.Write: sends the headers with status 200 if they have not gone out
WWrite(w, data) == [WWriteHeader(w, 200) EXCEPT !.body = @ \o data]

\* the server ends the response when the handler returns
WFinish(w) == WWriteHeader(w, 200)

\* the responseRecorder fetchAndCache builds around w
NewRecorder(w) == [w |-> w, statusCode |-> 200, headers |-> NoHeaders, body |-> <<>>]

\* recorder.Header(): the embedded ResponseWriter's
RrHeaderSet(rr, name, value) == [rr EXCEPT !.w = WHeaderSet(@, name, value)]

\* responseRecorder.WriteHeader
RrWriteHeader(rr, code) ==
    [rr EXCEPT !.statusCode = code,
               !.headers = [n \in HeaderNames |->
                              IF rr.w.hdr[n] # <<>> THEN rr.w.hdr[n] ELSE rr.headers[n]]]

\* responseRecorder.Write
RrWrite(rr, data) == [rr EXCEPT !.body = @ \o data, !.w = WWrite(@, data)]

\* the calls an upstream handler makes on the writer it is given
MwOps ==
    {[op |-> "Set", name |-> <<"Set-Cookie">>, value |-> <<"sid=1">>, code |-> 0, data |-> <<>>],
     [op |-> "Set", name |-> <<"Cache-Control">>, value |-> <<"private">>, code |-> 0, data |-> <<>>],
     [op |-> "Set", name |-> <<"ETag">>, value |-> <<"v1">>, code |-> 0, data |-> <<>>],
     [op |-> "WriteHeader", name |-> <<>>, value |-> <<>>, code |-> 200, data |-> <<>>],
     [op |-> "WriteHeader", name |-> <<>>, value |-> <<>>, code |-> 404, data |-> <<>>],
     [op |-> "Write", name |-> <<>>, value |-> <<>>, code |-> 0, data |-> <<1>>]}

\* the most calls a handler makes
MaxCalls == 3

\* an upstream that answers with a compressed body: it names the encoding
\* and writes the bytes
CompressedAnswer ==
    <<[op |-> "Set", name |-> <<"Content-Encoding">>, value |-> <<"gzip">>, code |-> 0,
       data |-> <<>>],
      [op |-> "Write", name |-> <<>>, value |-> <<>>, code |-> 0, data |-> <<1>>]>>

Scripts == UNION {[1..n -> MwOps] : n \in 0..MaxCalls} \cup {CompressedAnswer}

\* m.handler.ServeHTTP(w, r): the handler writes to the client's writer
RECURSIVE RunDirect(_, _)
RunDirect(w, script) ==
    IF script = <<>> THEN w
    ELSE LET c == script[1]
         IN  RunDirect(CASE c.op = "Set" -> WHeaderSet(w, c.name, c.value)
                         [] c.op = "WriteHeader" -> WWriteHeader(w, c.code)
                         [] c.op = "Write" -> WWrite(w, c.data),
                       Tail(script))

\* m.handler.ServeHTTP(recorder, r): the handler writes to the recorder
RECURSIVE RunRecorded(_, _)
RunRecorded(rr, script) ==
    IF script = <<>> THEN rr
    ELSE LET c == script[1]
         IN  RunRecorded(CASE c.op = "Set" -> RrHeaderSet(rr, c.name, c.value)
                           [] c.op = "WriteHeader" -> RrWriteHeader(rr, c.code)
                           [] c.op = "Write" -> RrWrite(rr, c.data),
                         Tail(script))

\* cache.IsCacheable
IsCacheable(r) ==
    IF r.method # "GET" /\ r.method # "HEAD" THEN FALSE
    ELSE IF HeaderGet(r.header, <<"Authorization">>) # <<>> THEN FALSE
    ELSE IF \/ Contains(HeaderGet(r.header, <<"Cache-Control">>), <<"no-cache">>)
            \/ Contains(HeaderGet(r.header, <<"Cache-Control">>), <<"no-store">>)
    THEN FALSE
    ELSE TRUE

\* cache.IsResponseCacheable
IsResponseCacheable(statusCode, headers) ==
    IF statusCode \notin {200, 203, 204, 301, 302} THEN FALSE
    ELSE IF HeaderGet(headers, <<"Set-Cookie">>) # <<>> THEN FALSE
    ELSE IF \/ Contains(HeaderGet(headers, <<"Cache-Control">>), <<"no-store">>)
            \/ Contains(HeaderGet(headers, <<"Cache-Control">>), <<"private">>)
    THEN FALSE
    ELSE IF HeaderGet(headers, <<"Pragma">>) = <<"no-cache">> THEN FALSE
    ELSE TRUE

\* regexp.MatchString for a pattern without metacharacters: the path
\* contains the pattern
MatchString(pattern, path) == Contains(path, pattern)

\* Middleware.isCacheable
isCacheable(cfg, r) ==
    IF ~IsCacheable(r) THEN FALSE
    ELSE IF Len(cfg.CacheablePaths) > 0
    THEN \E i \in 1..Len(cfg.CacheablePaths) : MatchString(cfg.CacheablePaths[i], r.path)
    ELSE TRUE

\* Config.DefaultTTL (NewMiddleware's fallback of one hour, in ticks)
DefaultTTL == 1

\* Config.MaxCacheSize, in bytes
MaxCacheSize == 2

\* cache.NewKeyGenerator
NewKeyGenerator ==
    [IncludeQuery |-> TRUE, VaryHeaders |-> VaryHeaders, CaseSensitive |-> FALSE]

\* Config.KeyGenerator.GenerateKey(r)
MwKey(r) ==
    GenerateKey(NewKeyGenerator,
                [tls |-> FALSE, host |-> r.host, path |-> r.path, rawQuery |-> <<>>,
                 header |-> [h \in {AcceptEncoding} |-> HeaderGet(r.header, h)]])

\* the requests clients send
MwPaths == {<<"/", "a">>, <<"/", "b">>}

MwRequests ==
    {[method |-> m, host |-> <<"h">>, path |-> p,
      header |-> [[NoHeaders EXCEPT ![<<"Authorization">>] = a] EXCEPT ![<<"Cache-Control">>] = c]] :
        m \in {"GET", "HEAD", "POST"}, p \in MwPaths,
        a \in {<<>>, <<<<"Bearer t">>>>},
        c \in {<<>>, <<<<"no-cache">>>>, <<<<"max-age=0">>, <<"no-store">>>>}}

MwKeys == {MwKey(r) : r \in MwRequests}

\* Config.Store: a CacheStore holding, per key, a body and its metadata
EmptyStore == [k \in MwKeys |-> NoEntry]

\* CacheStore.Get: an expired entry is deleted and not found
StoreGet(S, key, fault, t) ==
    IF fault = "get" THEN [store |-> S, res |-> Result("get failed", FALSE, NoBody, NoMeta)]
    ELSE IF S[key] = NoEntry THEN [store |-> S, res |-> Result("", FALSE, NoBody, NoMeta)]
    ELSE IF IsExpired(S[key].meta, t)
    THEN [store |-> [S EXCEPT ![key] = NoEntry], res |-> Result("", FALSE, NoBody, NoMeta)]
    ELSE [store |-> S, res |-> Result("", TRUE, S[key].body, S[key].meta)]

\* a Put that reports success and stores nothing
StorePutLost(S, key, body, meta, fault) == [store |-> S, err |-> ""]

\* CacheStore.Put: Size becomes the length of the body
StorePut(S, key, body, meta, fault) ==
    IF fault = "put" THEN [store |-> S, err |-> "put failed"]
    ELSE [store |-> [S EXCEPT ![key] = [body |-> body,
                                        meta |-> [meta EXCEPT !.Size = Len(body)]]],
          err |-> ""]

\* Stats and its increment methods
NoStats == [Hits |-> 0, Misses |-> 0, Puts |-> 0, Errors |-> 0, Bypasses |-> 0]

\* an increment that lands on the hit counter whatever it was meant for
incrementHitsOnly(s, counter) == [s EXCEPT !.Hits = @ + 1]

\* an increment that counts the event twice
incrementTwice(s, counter) == [s EXCEPT ![counter] = @ + 2]

increment(s, counter) == [s EXCEPT ![counter] = @ + 1]

\* Middleware.writeRecordedResponse: every recorded header value is added,
\* then the status and the buffered body are written
RECURSIVE AddValues(_, _, _)
AddValues(w, name, values) ==
    IF values = <<>> THEN w
    ELSE AddValues(WHeaderAdd(w, name, values[1]), name, Tail(values))

RECURSIVE AddHeaders(_, _, _)
AddHeaders(w, headers, names) ==
    IF names = {} THEN w
    ELSE LET n == CHOOSE x \in names : TRUE
         IN  AddHeaders(AddValues(w, n, headers[n]), headers, names \ {n})

writeRecordedResponse(w, rr) ==
    WWrite(WWriteHeader(AddHeaders(w, rr.headers, HeaderNames), rr.statusCode), rr.body)

\* strconv.FormatInt(n, 10)
FormatInt(n) == <<"int", n>>

\* the Meta fetchAndCache builds from the recorder
NewMeta(rr, t) ==
    [ContentType |-> HeaderGet(rr.headers, <<"Content-Type">>), Encoding |-> <<>>, Size |-> 0,
     ETag |-> HeaderGet(rr.headers, <<"ETag">>), TTL |-> DefaultTTL, CachedAt |-> t,
     StatusCode |-> rr.statusCode,
     Headers |-> [n \in {x \in {<<"Last-Modified">>, <<"Vary">>} : HeaderGet(rr.headers, x) # <<>>} |->
                    HeaderGet(rr.headers, n)]]

\* what a request leaves besides its response: the events handed to
\* Config.OnCacheEvent in order, the times the reader store.Get returned was
\* closed, the jobs handed to Config.WorkerQueue, the error of store.Put
Effects(events, closes, enqueues, putErr) ==
    [events |-> events, closes |-> closes, enqueues |-> enqueues, putErr |-> putErr]

\* the "traffic" event of a response body, emitted when bytes were sent
Traffic(n) == IF n > 0 THEN <<<<"traffic", n>>>> ELSE <<>>

\* what ServeHTTP leaves: the client's writer, the store, the counters, the
\* branch taken, the calls made on the store and the handler, the recorder
Served(w, S, stats, branch, gets, puts, ups, rr, fx) ==
    [w |-> WFinish(w), store |-> S, stats |-> stats, branch |-> branch,
     getCalls |-> gets, putCalls |-> puts, upstreamCalls |-> ups, rr |-> rr,
     events |-> fx.events, closes |-> fx.closes, enqueues |-> fx.enqueues,
     putErr |-> fx.putErr]

NoRecorder == [none |-> TRUE]

\* Middleware.serveCachedResponse
RECURSIVE SetHeaders(_, _, _)
SetHeaders(w, headers, names) ==
    IF names = {} THEN w
    ELSE LET n == CHOOSE x \in names : TRUE
         IN  SetHeaders(WHeaderSet(w, n, headers[n]), headers, names \ {n})

\* a cached response that stops after the status line
serveCachedStatusOnly(w, body, meta, t) ==
    WWriteHeader(WHeaderSet(w, <<"X-Cache">>, <<"HIT">>), meta.StatusCode)

serveCachedResponse(w, body, meta, t) ==
    LET w1 == WHeaderSet(WHeaderSet(w, <<"X-Cache">>, <<"HIT">>), <<"Age">>,
                         FormatInt(t - meta.CachedAt))
        w2 == IF meta.ContentType # <<>> THEN WHeaderSet(w1, <<"Content-Type">>, meta.ContentType)
              ELSE w1
        w3 == IF meta.Encoding # <<>> THEN WHeaderSet(w2, <<"Content-Encoding">>, meta.Encoding)
              ELSE w2
        w4 == IF meta.ETag # <<>> THEN WHeaderSet(w3, <<"ETag">>, meta.ETag) ELSE w3
        w5 == IF meta.TTL - (t - meta.CachedAt) > 0
              THEN WHeaderSet(w4, <<"Cache-Control">>,
                              <<"public", ", ", "max-age=">>
                                  \o FormatInt(meta.TTL - (t - meta.CachedAt)))
              ELSE w4
        w6 == SetHeaders(w5, meta.Headers, DOMAIN meta.Headers)
    IN  WWrite(WWriteHeader(w6, meta.StatusCode), body)

\* Middleware.fetchAndCache, with Config.OnCacheEvent set
fetchAndCache(cfg, S, stats, r, key, script, fault, t) ==
    LET rr      == RunRecorded(NewRecorder(NewWriter), script)
        traffic == Traffic(Len(rr.body))
    IN  IF ~IsResponseCacheable(rr.statusCode, rr.headers)
        THEN Served(writeRecordedResponse(rr.w, rr), S, stats, "miss", 1, 0, 1, rr,
                    Effects(<<<<"miss", 0>>>> \o traffic, 0, 0, ""))
        ELSE IF Len(rr.body) > MaxCacheSize
        THEN Served(writeRecordedResponse(rr.w, rr), S, stats, "miss", 1, 0, 1, rr,
                    Effects(<<<<"miss", 0>>>> \o traffic, 0, 0, ""))
        ELSE LET opt  == IF cfg.OptimizationMode = "sync" /\ cfg.OptimizationPipeline # NoPipeline
                         THEN ApplyToBytes(cfg.OptimizationPipeline, rr.body, NewMeta(rr, t),
                                           FALSE)
                         ELSE [err |-> "none", body |-> NoBody, meta |-> NoMeta]
                 body == IF opt.err = "" THEN opt.body ELSE rr.body
                 meta == IF opt.err = "" THEN opt.meta ELSE NewMeta(rr, t)
                 enq  == IF /\ cfg.OptimizationMode = "async"
                            /\ cfg.WorkerQueue
                            /\ cfg.OptimizationPipeline # NoPipeline
                         THEN 1 ELSE 0
                 p    == StorePut(S, key, body, meta, fault)
             IN  Served(writeRecordedResponse(WHeaderSet(rr.w, <<"X-Cache">>, <<"MISS">>), rr),
                        p.store,
                        IF p.err = "" THEN increment(stats, "Puts") ELSE stats,
                        "miss", 1, 1, 1, rr,
                        Effects(<<<<"miss", 0>>>>
                                    \o (IF p.err = "" THEN <<<<"put", Len(body)>>>> ELSE <<>>)
                                    \o traffic,
                                0, enq, p.err))

\* Middleware.ServeHTTP
Serve(cfg, S, stats, r, script, fault, t) ==
    IF ~cfg.Enabled
    THEN Served(RunDirect(NewWriter, script), S, stats, "disabled", 0, 0, 1, NoRecorder,
                Effects(<<>>, 0, 0, ""))
    ELSE IF ~isCacheable(cfg, r)
    THEN Served(RunDirect(NewWriter, script), S, increment(stats, "Bypasses"), "bypass",
                0, 0, 1, NoRecorder, Effects(<<>>, 0, 0, ""))
    ELSE LET g == StoreGet(S, MwKey(r), fault, t)
         IN  IF g.res.err # ""
             THEN Served(RunDirect(NewWriter, script), g.store, increment(stats, "Errors"),
                         "error", 1, 0, 1, NoRecorder, Effects(<<>>, 0, 0, ""))
             ELSE IF g.res.found
             THEN Served(serveCachedResponse(NewWriter, g.res.body, g.res.meta, t),
                         g.store, increment(stats, "Hits"), "hit", 1, 0, 0, NoRecorder,
                         Effects(<<<<"hit", 0>>>> \o Traffic(Len(g.res.body)), 1, 0, ""))
             ELSE fetchAndCache(cfg, g.store, increment(stats, "Misses"), r, MwKey(r),
                                script, fault, t)

\* the requests one run serves
MaxRequests == 2

\* a Config: Enabled, CacheablePaths, OptimizationMode, OptimizationPipeline
\* and whether a WorkerQueue is set
MwConfig(enabled, paths, mode, pipeline, queue) ==
    [Enabled |-> enabled, CacheablePaths |-> paths, OptimizationMode |-> mode,
     OptimizationPipeline |-> pipeline, WorkerQueue |-> queue]

MwConfigs ==
    {MwConfig(TRUE, <<>>, "disabled", NoPipeline, FALSE),
     MwConfig(TRUE, <<<<"/", "a">>>>, "disabled", NoPipeline, FALSE),
     MwConfig(FALSE, <<>>, "disabled", NoPipeline, FALSE),
     MwConfig(TRUE, <<>>, "async", GzipPipeline, TRUE)}

NoExchange == [none |-> TRUE]

MwInit ==
    /\ mwCfg \in MwConfigs
    /\ mwStore = EmptyStore
    /\ mwStats = NoStats
    /\ mwLast = NoExchange
    /\ mwCount = 0
    /\ mwPurge = NoExchange
    /\ mwFrom = [k \in MwKeys |-> NoExchange]

MwOff ==
    /\ mwCfg = MwConfig(FALSE, <<>>, "disabled", NoPipeline, FALSE)
    /\ mwStore = EmptyStore
    /\ mwStats = NoStats
    /\ mwLast = NoExchange
    /\ mwCount = 0
    /\ mwPurge = NoExchange
    /\ mwFrom = [k \in MwKeys |-> NoExchange]

\* what the recorder held when the first of several WriteHeader calls of the
\* handler returned
FirstRecorded(script) ==
    LET at == {i \in 1..Len(script) : script[i].op = "WriteHeader"}
    IN  IF Cardinality(at) < 2 THEN NoRecorder
        ELSE CHOOSE f \in {[statusCode |-> rr.statusCode, headers |-> rr.headers] :
                               rr \in {RunRecorded(NewRecorder(NewWriter),
                                                   SubSeq(script, 1, CHOOSE i \in at : \A j \in at : i <= j))}} :
                 TRUE

\* a request arrives and ServeHTTP runs to its return; direct is what the
\* handler sends a client that calls it without the middleware
ServeHTTP ==
    /\ stKind = "mw"
    /\ mwLast = NoExchange
    /\ mwPurge = NoExchange
    /\ mwCount < MaxRequests
    /\ \E r \in MwRequests, script \in Scripts, fault \in {"none", "get", "put"} :
          \E out \in {Serve(mwCfg, mwStore, mwStats, r, script, fault, now)} :
              /\ mwStore' = out.store
              /\ mwStats' = out.stats
              /\ mwLast' = [req |-> r, direct |-> WFinish(RunDirect(NewWriter, script)),
                            client |-> out.w, branch |-> out.branch,
                            getCalls |-> out.getCalls, putCalls |-> out.putCalls,
                            upstreamCalls |-> out.upstreamCalls, rr |-> out.rr,
                            events |-> out.events, closes |-> out.closes,
                            enqueues |-> out.enqueues, putErr |-> out.putErr,
                            before |-> mwStats,
                            key |-> MwKey(r), stored |-> mwStore[MwKey(r)], at |-> now,
                            first |-> IF out.rr = NoRecorder THEN NoRecorder
                                      ELSE FirstRecorded(script)]
              /\ mwFrom' = [k \in MwKeys |->
                               IF out.store[k] = NoEntry THEN NoExchange
                               ELSE IF k = MwKey(r) /\ out.putCalls = 1 /\ out.putErr = ""
                               THEN [method |-> r.method, status |-> out.w.status,
                                     body |-> out.w.body,
                                     contentType |-> out.w.sent[<<"Content-Type">>],
                                     contentEncoding |-> out.w.sent[<<"Content-Encoding">>]]
                               ELSE mwFrom[k]]
    /\ mwCount' = mwCount + 1
    /\ UNCHANGED <<kgVars, opVars, wkVars, stVars, fcVars, mwCfg, mwPurge>>

\* the exchange is over
EndExchange ==
    /\ stKind = "mw"
    /\ mwLast # NoExchange \/ mwPurge # NoExchange
    /\ mwLast' = NoExchange
    /\ mwPurge' = NoExchange
    /\ UNCHANGED <<kgVars, opVars, wkVars, stVars, fcVars, mwCfg, mwStore, mwStats, mwCount,
                   mwFrom>>

(***************************************************************************)
(* The admin endpoints (mod/cachemiddleware/admin.go) on the middleware's  *)
(* store.                                                                  *)
(***************************************************************************)

\* AdminHandler.adminSecret
AdminSecret == <<"s3">>

\* AdminHandler.authenticate
authenticate(secret, r) ==
    IF secret = <<>> THEN TRUE
    ELSE IF r.authorization # <<>> /\ r.authorization[1] = "Bearer "
    THEN Tail(r.authorization) = secret
    ELSE r.secret = secret

\* the keys a purge request names: keys of cached requests, and strings of
\* the client's own making
PurgeKeys == MwKeys \cup {<<".", ".", "/", "x">>, <<>>}

\* the requests sent to the purge endpoint; body.valid is whether the body
\* decodes as JSON, body.Key the "key" member
PurgeRequests ==
    {[method |-> m, authorization |-> a, secret |-> q, body |-> [valid |-> v, Key |-> k]] :
        m \in {"POST", "GET"},
        a \in {<<>>, <<"Bearer ", "s3">>, <<"Bearer ", "no">>},
        q \in {<<>>, <<"s3">>},
        v \in BOOLEAN, k \in PurgeKeys}

\* CacheStore.Delete on Config.Store
StoreDelete(S, key, fault) ==
    IF fault = "delete" THEN [store |-> S, err |-> "delete failed"]
    ELSE [store |-> [k \in DOMAIN S |-> IF k = key THEN NoEntry ELSE S[k]], err |-> ""]

\* what HandlePurge leaves: the response, the store, the keys store.Delete
\* was called with, and the paths an FSStore builds from them
Purged(response, S, keys) ==
    [response |-> response, store |-> S, deleteKeys |-> keys,
     paths |-> UNION {{getDataPath(k), getMetaPath(k)} : k \in keys}]

\* AdminHandler.HandlePurge
Purge(secret, S, r, fault) ==
    IF ~authenticate(secret, r) THEN Purged("401 Unauthorized", S, {})
    ELSE IF r.method # "POST" THEN Purged("405 Method not allowed", S, {})
    ELSE IF ~r.body.valid THEN Purged("Invalid request body", S, {})
    ELSE IF r.body.Key = <<>> THEN Purged("Key is required", S, {})
    ELSE LET d == StoreDelete(S, r.body.Key, fault)
         IN  IF d.err # "" THEN Purged("Failed to purge cache", d.store, {r.body.Key})
             ELSE Purged("success", d.store, {r.body.Key})

\* a purge request arrives and HandlePurge runs to its return
HandlePurge ==
    /\ stKind = "mw"
    /\ mwLast = NoExchange
    /\ mwPurge = NoExchange
    /\ \E r \in PurgeRequests, fault \in {"none", "delete"} :
          \E out \in {Purge(AdminSecret, mwStore, r, fault)} :
              /\ mwStore' = out.store
              /\ mwPurge' = [key |-> r.body.Key, response |-> out.response,
                             deleteKeys |-> out.deleteKeys, paths |-> out.paths,
                             authenticated |-> authenticate(AdminSecret, r)]
              /\ mwFrom' = [k \in MwKeys |-> IF out.store[k] = NoEntry THEN NoExchange ELSE mwFrom[k]]
    /\ UNCHANGED <<kgVars, opVars, wkVars, stVars, fcVars, mwCfg, mwStats, mwLast, mwCount>>

MwNext == ServeHTTP \/ EndExchange \/ HandlePurge

(***************************************************************************)
(* The worker pool (mod/cacheworker) and the asynchronous path of          *)
(* fetchAndCache that feeds it.  Requests are served concurrently; every   *)
(* channel operation and every store call is one step.                     *)
(***************************************************************************)

\* Config.QueueSize and Config.WorkerCount
QueueSize == 2

WorkerCount == 2

Workers == 1..WorkerCount

\* the requests served in one run
MaxJobs == 3

Requests == 1..MaxJobs

\* the keys of the requests
WkKeys == {Key1}

\* the response the upstream handler produces, and the Meta fetchAndCache
\* builds for it
RawBody == <<1, 1, 1>>

RawMeta ==
    [ContentType |-> <<"text/html">>, Encoding |-> <<>>, Size |-> 0, ETag |-> <<>>,
     TTL |-> 0, CachedAt |-> 0, StatusCode |-> 200, Headers |-> <<>>]

\* bytes.NewReader(data): Read ends with io.EOF
BytesReader(data) == [data |-> data, end |-> "io.EOF"]

\* cacheworker's newBytesReader(data): Read ends with &eofError{}, an error
\* of its own whose text is "EOF"
newBytesReader(data) == [data |-> data, end |-> "eofError"]

\* cacheworker's readAll: the end is told by the text of the error
readAll(reader) == reader.data

\* CacheStore.Put of FSStore (io.Copy) and RedisStore (io.ReadAll): any
\* error of Read but io.EOF itself fails the Put and leaves the entry
PutFrom(S, key, reader, meta) ==
    StorePut(S, key, reader.data, meta, IF reader.end = "io.EOF" THEN "none" ELSE "put")

NoJob == [id |-> 0, key |-> <<>>, body |-> NoBody, meta |-> NoMeta]

\* an OptimizationJob; id tells the jobs of one key apart
Job(r, key) == [NoJob EXCEPT !.id = r, !.key = key]

NoRequest == [pc |-> "idle", key |-> <<>>]

\* NewWorker; Start has not been called
WkInit ==
    /\ wkQueue = <<>>
    /\ wkClosed = FALSE
    /\ wkCancelled = FALSE
    /\ wkPc = [w \in Workers |-> "none"]
    /\ wkJob = [w \in Workers |-> NoJob]
    /\ wkStop = "none"
    /\ wkStore = [k \in WkKeys |-> NoEntry]
    /\ wkReq = [r \in Requests |-> NoRequest]
    /\ wkLog = [accepted |-> {}, processed |-> {}, deleted |-> FALSE, fresh |-> {}]

\* Worker.Start: WorkerCount goroutines run processJobs
Start ==
    /\ stKind = "wk"
    /\ wkStop = "none"
    /\ \A w \in Workers : wkPc[w] = "none"
    /\ wkPc' = [w \in Workers |-> "select"]
    /\ UNCHANGED <<kgVars, opVars, stVars, fcVars, mwVars, wkQueue, wkClosed, wkCancelled, wkJob,
                   wkStop, wkStore, wkReq, wkLog>>

\* ServeHTTP up to store.Get in asynchronous mode: a miss goes on to
\* fetchAndCache, a hit is served
MwGet(r) ==
    /\ stKind = "wk"
    /\ wkReq[r].pc = "idle"
    /\ \A q \in 1..(r - 1) : wkReq[q].pc # "idle"
    /\ \E k \in WkKeys :
          wkReq' = [wkReq EXCEPT ![r] =
                       [pc |-> IF StoreGet(wkStore, k, "none", 0).res.found
                               THEN "hit" ELSE "enqueue",
                        key |-> k]]
    /\ wkLog' = IF wkLog.deleted /\ wkReq'[r].pc = "enqueue"
                THEN [wkLog EXCEPT !.fresh = @ \cup {r}]
                ELSE wkLog
    /\ UNCHANGED <<kgVars, opVars, stVars, fcVars, mwVars, wkQueue, wkClosed, wkCancelled, wkPc,
                   wkJob, wkStop, wkStore>>

\* Worker.Enqueue: a send that does not wait; on a closed channel it panics
Enqueue(queue, closed, job) ==
    IF closed THEN [queue |-> queue, outcome |-> "panic"]
    ELSE IF Len(queue) < QueueSize THEN [queue |-> Append(queue, job), outcome |-> "sent"]
    ELSE [queue |-> queue, outcome |-> "dropped"]

\* fetchAndCache: WorkerQueue.Enqueue, called before store.Put
MwEnqueue(r) ==
    /\ stKind = "wk"
    /\ wkReq[r].pc = "enqueue"
    /\ \E e \in {Enqueue(wkQueue, wkClosed, Job(r, wkReq[r].key))} :
          /\ wkQueue' = e.queue
          /\ wkReq' = [wkReq EXCEPT ![r].pc = IF e.outcome = "panic" THEN "panic" ELSE "put"]
          /\ wkLog' = IF e.outcome = "sent" /\ wkStop = "none"
                      THEN [wkLog EXCEPT !.accepted = @ \cup {r}]
                      ELSE wkLog
    /\ UNCHANGED <<kgVars, opVars, stVars, fcVars, mwVars, wkClosed, wkCancelled, wkPc, wkJob,
                   wkStop, wkStore>>

\* fetchAndCache: store.Put of the raw response, then the response is
\* written to the client
MwPut(r) ==
    /\ stKind = "wk"
    /\ wkReq[r].pc = "put"
    /\ wkStore' = PutFrom(wkStore, wkReq[r].key, BytesReader(RawBody), RawMeta).store
    /\ wkReq' = [wkReq EXCEPT ![r].pc = "done"]
    /\ UNCHANGED <<kgVars, opVars, stVars, fcVars, mwVars, wkQueue, wkClosed, wkCancelled, wkPc,
                   wkJob, wkStop, wkLog>>

\* processJobs: case <-w.ctx.Done()
WorkerDone(w) ==
    /\ stKind = "wk"
    /\ wkPc[w] = "select"
    /\ wkCancelled
    /\ wkPc' = [wkPc EXCEPT ![w] = "exited"]
    /\ UNCHANGED <<kgVars, opVars, stVars, fcVars, mwVars, wkQueue, wkClosed, wkCancelled, wkJob,
                   wkStop, wkStore, wkReq, wkLog>>

\* processJobs: case job, ok := <-w.queue
WorkerReceive(w) ==
    /\ stKind = "wk"
    /\ wkPc[w] = "select"
    /\ wkQueue # <<>> \/ wkClosed
    /\ IF wkQueue # <<>>
       THEN /\ wkQueue' = Tail(wkQueue)
            /\ wkJob' = [wkJob EXCEPT ![w] = Head(wkQueue)]
            /\ wkPc' = [wkPc EXCEPT ![w] = "get"]
       ELSE /\ wkPc' = [wkPc EXCEPT ![w] = "exited"]
            /\ UNCHANGED <<wkQueue, wkJob>>
    /\ UNCHANGED <<kgVars, opVars, stVars, fcVars, mwVars, wkClosed, wkCancelled, wkStop, wkStore,
                   wkReq, wkLog>>

\* processJob: job.Store.Get and readAll
WorkerGet(w) ==
    /\ stKind = "wk"
    /\ wkPc[w] = "get"
    /\ \E g \in {StoreGet(wkStore, wkJob[w].key, "none", 0)} :
          /\ wkStore' = g.store
          /\ IF g.res.found
             THEN /\ wkJob' = [wkJob EXCEPT ![w].body = readAll(BytesReader(g.res.body)),
                                            ![w].meta = g.res.meta]
                  /\ wkPc' = [wkPc EXCEPT ![w] = "put"]
             ELSE /\ wkJob' = [wkJob EXCEPT ![w] = NoJob]
                  /\ wkPc' = [wkPc EXCEPT ![w] = "select"]
    /\ wkLog' = [wkLog EXCEPT !.processed = @ \cup {wkJob[w].id}]
    /\ UNCHANGED <<kgVars, opVars, stVars, fcVars, mwVars, wkQueue, wkClosed, wkCancelled, wkStop,
                   wkReq>>

\* processJob: Pipeline.ApplyToBytes and job.Store.Put of its output
WorkerPut(w) ==
    /\ stKind = "wk"
    /\ wkPc[w] = "put"
    /\ \E o \in {ApplyToBytes(GzipPipeline, wkJob[w].body, wkJob[w].meta, FALSE)} :
          wkStore' = IF o.err # "" THEN wkStore
                     ELSE PutFrom(wkStore, wkJob[w].key, newBytesReader(o.body), o.meta).store
    /\ wkJob' = [wkJob EXCEPT ![w] = NoJob]
    /\ wkPc' = [wkPc EXCEPT ![w] = "select"]
    /\ UNCHANGED <<kgVars, opVars, stVars, fcVars, mwVars, wkQueue, wkClosed, wkCancelled, wkStop,
                   wkReq, wkLog>>

\* AdminHandler.HandlePurge: store.Delete(key) on the store the jobs name,
\* once; the requests that miss from now on are noted
WkPurge ==
    /\ stKind = "wk"
    /\ ~wkLog.deleted
    /\ \E k \in WkKeys : wkStore' = StoreDelete(wkStore, k, "none").store
    /\ wkLog' = [wkLog EXCEPT !.deleted = TRUE]
    /\ UNCHANGED <<kgVars, opVars, stVars, fcVars, mwVars, wkQueue, wkClosed, wkCancelled, wkPc,
                   wkJob, wkStop, wkReq>>

\* the steps of one worker
WorkerStep(w) == WorkerDone(w) \/ WorkerReceive(w) \/ WorkerGet(w) \/ WorkerPut(w)

\* Worker.Stop: w.cancel()
StopCancel ==
    /\ stKind = "wk"
    /\ wkStop = "none"
    /\ \A w \in Workers : wkPc[w] # "none"
    /\ wkCancelled' = TRUE
    /\ wkStop' = "cancelled"
    /\ UNCHANGED <<kgVars, opVars, stVars, fcVars, mwVars, wkQueue, wkClosed, wkPc, wkJob, wkStore,
                   wkReq, wkLog>>

\* Worker.Stop: close(w.queue)
StopClose ==
    /\ stKind = "wk"
    /\ wkStop = "cancelled"
    /\ wkClosed' = TRUE
    /\ wkStop' = "closed"
    /\ UNCHANGED <<kgVars, opVars, stVars, fcVars, mwVars, wkQueue, wkCancelled, wkPc, wkJob, wkStore,
                   wkReq, wkLog>>

\* a wait that is over when one worker has called wg.Done
WaitOne(pc) == \E w \in Workers : pc[w] = "exited"

\* w.wg.Wait() returns: every processJobs has run its deferred wg.Done
Wait(pc) == \A w \in Workers : pc[w] = "exited"

\* Worker.Stop: w.wg.Wait() and return
StopWait ==
    /\ stKind = "wk"
    /\ wkStop = "closed"
    /\ Wait(wkPc)
    /\ wkStop' = "returned"
    /\ UNCHANGED <<kgVars, opVars, stVars, fcVars, mwVars, wkQueue, wkClosed, wkCancelled, wkPc,
                   wkJob, wkStore, wkReq, wkLog>>

WkNext ==
    \/ Start
    \/ \E r \in Requests : MwGet(r)
    \/ \E r \in Requests : MwEnqueue(r)
    \/ \E r \in Requests : MwPut(r)
    \/ \E w \in Workers : WorkerDone(w)
    \/ \E w \in Workers : WorkerReceive(w)
    \/ \E w \in Workers : WorkerGet(w)
    \/ \E w \in Workers : WorkerPut(w)
    \/ StopCancel
    \/ StopClose
    \/ StopWait

(***************************************************************************)
(* Stats under concurrent requests (mod/cachemiddleware).  Each request    *)
(* calls incrementHits, incrementMisses, ... and GetStats; a call is the   *)
(* steps Lock, load, store, Unlock or RLock, read, read, RUnlock.          *)
(***************************************************************************)

Counters == {"Hits", "Misses", "Puts", "Errors", "Bypasses"}

\* the calls the requests make on the Stats in all
MaxStatCalls == 3

NoSnapshot == [none |-> TRUE]

\* Lock that does not wait for the holder
MayLockAnyway(mu, p) == TRUE

\* sync.RWMutex: Lock succeeds when no one holds the mutex
MayLock(mu, p) == mu.writer = 0 /\ mu.readers = {}

\* sync.RWMutex: RLock succeeds when no writer holds the mutex
MayRLock(mu, p) == mu.writer = 0

CtSum(made) ==
    made["Hits"] + made["Misses"] + made["Puts"] + made["Errors"] + made["Bypasses"]
        + made["GetStats"]

CtIdle == [pc |-> "idle", counter |-> "", tmp |-> 0, snap |-> NoSnapshot]

CtInit ==
    /\ ctMu = [writer |-> 0, readers |-> {}]
    /\ ctStats = NoStats
    /\ ctProc = [p \in Procs |-> CtIdle]
    /\ ctCalls = [c \in Counters \cup {"GetStats"} |-> 0]

\* a request reaches a call of s.increment<counter>()
CtIncrement(p, c) ==
    /\ ctProc[p].pc = "idle"
    /\ CtSum(ctCalls) < MaxStatCalls
    /\ ctProc' = [ctProc EXCEPT ![p].pc = "lock", ![p].counter = c]
    /\ ctCalls' = [ctCalls EXCEPT ![c] = @ + 1]
    /\ UNCHANGED <<kgVars, stVars, fcVars, mwVars, wkVars, plVars, vnVars, ctMu, ctStats>>

\* s.mu.Lock()
CtLock(p) ==
    /\ ctProc[p].pc = "lock"
    /\ MayLock(ctMu, p)
    /\ ctMu' = [ctMu EXCEPT !.writer = p]
    /\ ctProc' = [ctProc EXCEPT ![p].pc = "load"]
    /\ UNCHANGED <<kgVars, stVars, fcVars, mwVars, wkVars, plVars, vnVars, ctStats, ctCalls>>

\* s.X++: the load
CtLoad(p) ==
    /\ ctProc[p].pc = "load"
    /\ ctProc' = [ctProc EXCEPT ![p].pc = "store", ![p].tmp = ctStats[ctProc[p].counter]]
    /\ UNCHANGED <<kgVars, stVars, fcVars, mwVars, wkVars, plVars, vnVars, ctMu, ctStats, ctCalls>>

\* s.X++: the store
CtStore(p) ==
    /\ ctProc[p].pc = "store"
    /\ ctStats' = [ctStats EXCEPT ![ctProc[p].counter] = ctProc[p].tmp + 1]
    /\ ctProc' = [ctProc EXCEPT ![p].pc = "unlock"]
    /\ UNCHANGED <<kgVars, stVars, fcVars, mwVars, wkVars, plVars, vnVars, ctMu, ctCalls>>

\* the deferred s.mu.Unlock()
CtUnlock(p) ==
    /\ ctProc[p].pc = "unlock"
    /\ ctMu' = [ctMu EXCEPT !.writer = 0]
    /\ ctProc' = [ctProc EXCEPT ![p].pc = "idle"]
    /\ UNCHANGED <<kgVars, stVars, fcVars, mwVars, wkVars, plVars, vnVars, ctStats, ctCalls>>

\* a request reaches a call of m.GetStats()
CtGetStats(p) ==
    /\ ctProc[p].pc = "idle"
    /\ CtSum(ctCalls) < MaxStatCalls
    /\ ctProc' = [ctProc EXCEPT ![p].pc = "rlock", ![p].counter = "", ![p].snap = NoSnapshot]
    /\ ctCalls' = [ctCalls EXCEPT !["GetStats"] = @ + 1]
    /\ UNCHANGED <<kgVars, stVars, fcVars, mwVars, wkVars, plVars, vnVars, ctMu, ctStats>>

\* m.stats.mu.RLock()
CtRLock(p) ==
    /\ ctProc[p].pc = "rlock"
    /\ MayRLock(ctMu, p)
    /\ ctMu' = [ctMu EXCEPT !.readers = @ \cup {p}]
    /\ ctProc' = [ctProc EXCEPT ![p].pc = "read1"]
    /\ UNCHANGED <<kgVars, stVars, fcVars, mwVars, wkVars, plVars, vnVars, ctStats, ctCalls>>

\* the composite literal of GetStats: Hits and Misses are read
CtReadFirst(p) ==
    /\ ctProc[p].pc = "read1"
    /\ ctProc' = [ctProc EXCEPT ![p].pc = "read2",
                                ![p].snap = [NoStats EXCEPT !.Hits = ctStats.Hits,
                                                            !.Misses = ctStats.Misses]]
    /\ UNCHANGED <<kgVars, stVars, fcVars, mwVars, wkVars, plVars, vnVars, ctMu, ctStats, ctCalls>>

\* the composite literal of GetStats: Puts, Errors and Bypasses are read
CtReadRest(p) ==
    /\ ctProc[p].pc = "read2"
    /\ ctProc' = [ctProc EXCEPT ![p].pc = "runlock",
                                ![p].snap = [@ EXCEPT !.Puts = ctStats.Puts,
                                                      !.Errors = ctStats.Errors,
                                                      !.Bypasses = ctStats.Bypasses]]
    /\ UNCHANGED <<kgVars, stVars, fcVars, mwVars, wkVars, plVars, vnVars, ctMu, ctStats, ctCalls>>

\* the deferred m.stats.mu.RUnlock(); the request has its snapshot
CtRUnlock(p) ==
    /\ ctProc[p].pc = "runlock"
    /\ ctMu' = [ctMu EXCEPT !.readers = @ \ {p}]
    /\ ctProc' = [ctProc EXCEPT ![p].pc = "idle"]
    /\ UNCHANGED <<kgVars, stVars, fcVars, mwVars, wkVars, plVars, vnVars, ctStats, ctCalls>>

CtNext ==
    \/ \E p \in Procs, c \in Counters : CtIncrement(p, c)
    \/ \E p \in Procs : CtLock(p)
    \/ \E p \in Procs : CtLoad(p)
    \/ \E p \in Procs : CtStore(p)
    \/ \E p \in Procs : CtUnlock(p)
    \/ \E p \in Procs : CtGetStats(p)
    \/ \E p \in Procs : CtRLock(p)
    \/ \E p \in Procs : CtReadFirst(p)
    \/ \E p \in Procs : CtReadRest(p)
    \/ \E p \in Procs : CtRUnlock(p)

(***************************************************************************)
(* The Varnish store (mod/cache/varnishstore.go).  An endpoint answers a   *)
(* request with a status, or the transport fails (status 0, err TRUE).     *)
(***************************************************************************)

\* the most endpoints a store is configured with
MaxEndpoints == 3

VnEndpoints == <<"http://v1", "http://v2", "http://v3">>

VnAnswers ==
    {[err |-> FALSE, status |-> 200], [err |-> FALSE, status |-> 204],
     [err |-> FALSE, status |-> 404], [err |-> TRUE, status |-> 0]}

\* http.NewRequestWithContext(ctx, "PURGE", endpoint + "/" + key, nil)
PurgeRequest(endpoint, key) == [method |-> "PURGE", url |-> <<endpoint, "/", key>>]

\* VarnishStore.Delete from its i-th endpoint on: the requests sent in order
\* and the error returned ("" is nil)
RECURSIVE VarnishDeleteFrom(_, _, _, _, _)
VarnishDeleteFrom(endpoints, key, answers, i, sent) ==
    IF i > Len(endpoints) THEN [err |-> "", sent |-> sent]
    ELSE IF answers[i].err
    THEN [err |-> "failed to send PURGE request",
          sent |-> Append(sent, PurgeRequest(endpoints[i], key))]
    ELSE IF answers[i].status # 200 /\ answers[i].status # 204
    THEN [err |-> "PURGE request failed with status",
          sent |-> Append(sent, PurgeRequest(endpoints[i], key))]
    ELSE VarnishDeleteFrom(endpoints, key, answers, i + 1,
                           Append(sent, PurgeRequest(endpoints[i], key)))

\* VarnishStore.Delete(ctx, key)
VarnishDelete(endpoints, key, answers) == VarnishDeleteFrom(endpoints, key, answers, 1, <<>>)

\* NewVarnishStore refuses an empty endpoint list
VnInputs ==
    UNION {[endpoints : {SubSeq(VnEndpoints, 1, n)}, key : {"k1", "k2"},
            answers : [1..n -> VnAnswers]] : n \in 1..MaxEndpoints}

NoDeleted == [none |-> TRUE]

VnInit ==
    /\ vnIn \in VnInputs
    /\ vnOut = NoDeleted

VnOff ==
    /\ vnIn = [none |-> TRUE]
    /\ vnOut = NoDeleted

VnDelete ==
    /\ vnOut = NoDeleted
    /\ vnIn # [none |-> TRUE]
    /\ vnOut' = VarnishDelete(vnIn.endpoints, vnIn.key, vnIn.answers)
    /\ UNCHANGED <<kgVars, stVars, fcVars, mwVars, wkVars, plVars, ctVars, vnIn>>

VnNext == VnDelete

(***************************************************************************)
(* The specifications                                                      *)
(***************************************************************************)

vars == <<kgVars, stVars, fcVars, mwVars, wkVars, opVars>>

\* the key generator at rest
KgOff ==
    /\ kgConfig = [IncludeQuery |-> TRUE, CaseSensitive |-> FALSE, VaryHeaders |-> VaryHeaders]
    /\ kgReq1 = <<>>
    /\ kgReq2 = <<>>
    /\ kgKey1 = NoKey
    /\ kgKey2 = NoKey
    /\ kgDone = TRUE

KgNext == GenerateKeys /\ UNCHANGED <<opVars, stVars, fcVars, mwVars, wkVars>>

\* the other components at rest
OpOff == PlOff /\ CtInit /\ VnOff

\* the state after construction: the component a specification exercises is
\* started, the others are at rest
InitKey == KgInit /\ StInit({"off"}) /\ FcInit /\ MwOff /\ WkInit /\ OpOff

InitStore == StInit({"fs", "redis"}) /\ KgOff /\ FcInit /\ MwOff /\ WkInit /\ OpOff

InitFS == StInit({"fsconc"}) /\ FcInit /\ KgOff /\ MwOff /\ WkInit /\ OpOff

InitMW == StInit({"mw"}) /\ MwInit /\ KgOff /\ FcInit /\ WkInit /\ OpOff

InitWK == StInit({"wk"}) /\ WkInit /\ KgOff /\ FcInit /\ MwOff /\ OpOff

SpecKey == InitKey /\ [][KgNext]_vars

SpecStore == InitStore /\ [][StNext]_vars

SpecFS == InitFS /\ [][FcNext]_vars

SpecMW == InitMW /\ [][MwNext]_vars

SpecWK == InitWK /\ [][WkNext]_vars

\* the worker pool and the middleware with an administrator who purges
SpecWKPurge == InitWK /\ [][WkNext \/ WkPurge]_vars

InitPL == StInit({"pl"}) /\ PlInit /\ KgOff /\ FcInit /\ MwOff /\ WkInit /\ CtInit /\ VnOff

SpecPL == InitPL /\ [][PlNext]_vars

InitCT == StInit({"ct"}) /\ CtInit /\ KgOff /\ FcInit /\ MwOff /\ WkInit /\ PlOff /\ VnOff

SpecCT == InitCT /\ [][CtNext]_vars

InitVN == StInit({"vn"}) /\ VnInit /\ KgOff /\ FcInit /\ MwOff /\ WkInit /\ PlOff /\ CtInit

SpecVN == InitVN /\ [][VnNext]_vars

\* the scheduler runs every goroutine that can take a step: each worker,
\* each request being served, and Stop once it has been called
SpecWKFair ==
    /\ SpecWK
    /\ \A w \in Workers : WF_vars(WorkerStep(w))
    /\ \A r \in Requests : WF_vars(MwEnqueue(r) \/ MwPut(r))
    /\ WF_vars(StopClose \/ StopWait)


(***************************************************************************)
(* Claims on the key generator                                             *)
(***************************************************************************)

\* the multiset of (name, value) pairs of a parsed query
QueryBag(q) ==
    LET pairs == UNION {{<<k, q[k][i]>> : i \in 1..Len(q[k])} : k \in DOMAIN q}
    IN  [p \in pairs |-> Cardinality({i \in 1..Len(q[p[1]]) : q[p[1]][i] = p[2]})]

\* the two requests agree on scheme, host, path, query multiset and Vary headers
AgreeOnComponents(r1, r2) ==
    /\ r1.tls = r2.tls
    /\ r1.host = r2.host
    /\ r1.path = r2.path
    /\ QueryBag(Query(r1.rawQuery)) = QueryBag(Query(r2.rawQuery))
    /\ \A i \in 1..Len(VaryHeaders) :
          r1.header[VaryHeaders[i]] = r2.header[VaryHeaders[i]]

\* C9: two requests that agree on scheme, host, path, the multiset of query
\* pairs and the value of every configured Vary header get the same key,
\* whatever their raw query strings are (empty, or parsing to no pairs).
C9_KeyDeterminism ==
    (kgDone /\ AgreeOnComponents(kgReq1, kgReq2)) => kgKey1 = kgKey2

\* the fingerprint components of a request under a configuration: scheme,
\* normalised host and path, the normalised query (or none), the Vary values
Components(kg, r) ==
    [scheme |-> r.tls,
     host   |-> IF kg.CaseSensitive THEN r.host ELSE ToLower(r.host),
     path   |-> IF kg.CaseSensitive THEN r.path ELSE ToLower(r.path),
     query  |-> IF kg.IncludeQuery /\ r.rawQuery # <<>>
                THEN <<normalizeQuery(Query(r.rawQuery))>> ELSE <<>>,
     vary   |-> [i \in 1..Len(kg.VaryHeaders) |-> r.header[kg.VaryHeaders[i]]]]

\* C10: two requests that differ in at least one fingerprint component have
\* different fingerprint strings and different keys, also when a path or a
\* header value contains "|" or ":".
C10_KeyDistinctness ==
    (kgDone /\ Components(kgConfig, kgReq1) # Components(kgConfig, kgReq2))
        => /\ KeyString(kgConfig, kgReq1) # KeyString(kgConfig, kgReq2)
           /\ kgKey1 # kgKey2

(***************************************************************************)
(* Claims on a store used by one caller at a time                          *)
(***************************************************************************)

\* more than the TTL (> 0) of the metadata has passed since CachedAt at instant t
Elapsed(m, t) == m.TTL > 0 /\ t - m.CachedAt > m.TTL

\* the call before the Get left an entry with its metadata on the key
LeftEntry(prev) == (prev.op = "put" /\ prev.err = "") \/ (prev.op = "get" /\ prev.found)

\* the store holds nothing for the key
EntryGone(k) ==
    IF stKind = "fs"
    THEN ~Exists(fs, getDataPath(k)) /\ ~Exists(fs, getMetaPath(k))
    ELSE /\ ~RedisHas(redis, RedisKey(k, ":data"), now)
         /\ ~RedisHas(redis, RedisKey(k, ":meta"), now)

\* C7: in the filesystem and Redis stores a Get never returns an entry whose
\* TTL (> 0) has elapsed since CachedAt; the first Get after the expiry
\* returns not-found without error and leaves no entry behind, and a Get
\* that follows a not-found Get with no call on the key in between is
\* not-found too.
C7_Expiry ==
    stGet # NoGet =>
        /\ stGet.res.found => ~Elapsed(stGet.res.meta, stGet.at)
        /\ (LeftEntry(stGet.prev) /\ Elapsed(stGet.prev.meta, stGet.at)) =>
               (~stGet.res.found /\ stGet.res.err = "" /\ EntryGone(stGet.key))
        /\ (stGet.prev.op = "get" /\ ~stGet.prev.found /\ stGet.prev.err = "") =>
               (~stGet.res.found /\ stGet.res.err = "")

\* C7 witness: a Get met the entry that an earlier Get had returned, now
\* expired, and reported not-found
C7_Witness ==
    /\ stGet # NoGet
    /\ stGet.prev.op = "get" /\ stGet.prev.found
    /\ Elapsed(stGet.prev.meta, stGet.at)
    /\ ~stGet.res.found

\* the Get returned what the Put before it stored
RoundTrip(g) ==
    /\ g.res.found
    /\ g.res.err = ""
    /\ g.res.body = g.prev.body
    /\ g.res.meta = [g.prev.meta EXCEPT !.Size = Len(g.prev.body)]

\* a successful Put, then a Get on the key with no call on it in between
PutThenGet == stGet # NoGet /\ stGet.prev.op = "put" /\ stGet.prev.err = ""

\* the TTL the Redis server is given for the entry
ServerTTL(m) == IF m.TTL <= 0 THEN RedisDefaultTTL ELSE m.TTL

PutPair(L) == [body |-> L.body, meta |-> [L.meta EXCEPT !.Size = Len(L.body)]]

GotPair(L) == [body |-> L.res.body, meta |-> L.res.meta]

\* the complete pair of one Put
IsPair(e) == \E a \in ConcPuts : e = PutPair(a)

Returned(p, op) == calls[p].op = op /\ calls[p].pc = "ret"

\* C4: the key holds a complete, unexpired entry; one routine Puts an
\* unexpired entry on it and another Gets it meanwhile.  The Get returns
\* found with the complete old pair or the complete new pair.
C4_OldOrNewPair ==
    \A p, q \in Procs :
        (/\ p # q
         /\ Returned(p, "get")
         /\ calls[q].op = "put"
         /\ IsPair(fsBase)
         /\ ~Elapsed(fsBase.meta, now)
         /\ ~Elapsed(calls[q].meta, now))
        => (/\ calls[p].res.found
            /\ GotPair(calls[p]) \in {fsBase, PutPair(calls[q])})

\* C5: a Get that runs while another routine Puts, Deletes or Gets (and
\* cleans up an expired entry) returns found with a body and metadata, or
\* not-found with no error.
C5_FullPairOrNotFound ==
    \A p, q \in Procs :
        (/\ p # q
         /\ Returned(p, "get")
         /\ calls[q].op \in {"put", "delete", "get"})
        => (/\ calls[p].res.err = ""
            /\ calls[p].res.found =>
                   (calls[p].res.body # NoBody /\ calls[p].res.meta # NoMeta))

\* the result of a Get made now, with no other call running
Visible == FsRun(fs, GetCall(Key1), now).loc.res

\* C6: two routines Put unexpired entries on the key at once, both have
\* returned and at least one of them reported success.  A Get now finds the
\* complete pair of one of the two Puts, with Size equal to the length of
\* its body.
C6_LastWriterWins ==
    \A p, q \in Procs :
        (/\ p # q
         /\ Returned(p, "put") /\ Returned(q, "put")
         /\ calls[p].res.err = ""
         /\ ~Elapsed(calls[p].meta, now) /\ ~Elapsed(calls[q].meta, now))
        => (/\ Visible.found
            /\ [body |-> Visible.body, meta |-> Visible.meta]
                   \in {PutPair(calls[p]), PutPair(calls[q])}
            /\ Visible.meta.Size = Len(Visible.body))

(***************************************************************************)
(* Claims on the middleware                                                *)
(***************************************************************************)

\* some value of the header contains the directive
HasDirective(h, name, directive) ==
    \E i \in 1..Len(h[name]) : Contains(h[name][i], <<directive>>)

\* the response is one the response gate excludes: its status, a Set-Cookie
\* header, Cache-Control no-store or private, Pragma: no-cache
NotCacheableResponse(w) ==
    \/ w.status \notin {200, 203, 204, 301, 302}
    \/ w.sent[<<"Set-Cookie">>] # <<>>
    \/ HasDirective(w.sent, <<"Cache-Control">>, "no-store")
    \/ HasDirective(w.sent, <<"Cache-Control">>, "private")
    \/ \E i \in 1..Len(w.sent[<<"Pragma">>]) : w.sent[<<"Pragma">>][i] = <<"no-cache">>

\* C1: on a cache miss, when the response the upstream handler produced
\* (whatever calls of Header().Set, WriteHeader and Write produced it) is
\* not cacheable, the middleware does not call store.Put.
C1_NoPutWhenNotCacheable ==
    (/\ mwLast # NoExchange
     /\ mwLast.branch = "miss"
     /\ NotCacheableResponse(mwLast.direct))
    => mwLast.putCalls = 0

\* the request is one the request gate excludes: its method, an
\* Authorization header, Cache-Control no-cache or no-store, a path that
\* none of the configured patterns matches
FailsRequestGate(cfg, r) ==
    \/ r.method \notin {"GET", "HEAD"}
    \/ r.header[<<"Authorization">>] # <<>>
    \/ HasDirective(r.header, <<"Cache-Control">>, "no-cache")
    \/ HasDirective(r.header, <<"Cache-Control">>, "no-store")
    \/ /\ cfg.CacheablePaths # <<>>
       /\ \A i \in 1..Len(cfg.CacheablePaths) : ~Contains(r.path, cfg.CacheablePaths[i])

\* C2: with caching enabled, a request that fails the request gate makes
\* the middleware call neither store.Get nor store.Put, add one to bypasses
\* and call the upstream handler once; with an empty pattern list a request
\* is never turned away for its path.
C2_GateBypass ==
    (mwLast # NoExchange /\ mwCfg.Enabled) =>
        /\ FailsRequestGate(mwCfg, mwLast.req) =>
               /\ mwLast.getCalls = 0
               /\ mwLast.putCalls = 0
               /\ mwStats.Bypasses = mwLast.before.Bypasses + 1
               /\ mwLast.upstreamCalls = 1
        /\ (mwCfg.CacheablePaths = <<>> /\ ~FailsRequestGate(mwCfg, mwLast.req)) =>
               mwLast.branch # "bypass"

\* C3: on a cache miss the client receives the status the upstream handler
\* set and the bytes it wrote, once and in order, as it would from the
\* handler without the recorder.
C3_RecorderTransparent ==
    (mwLast # NoExchange /\ mwLast.branch = "miss") =>
        /\ mwLast.client.status = mwLast.direct.status
        /\ mwLast.client.body = mwLast.direct.body

(***************************************************************************)
(* Claims on the admin endpoints                                           *)
(***************************************************************************)

\* the form of every output of KeyGenerator.GenerateKey
IsGeneratedKey(k) == Len(k) = 2 /\ k[1] = "sha256"

\* C11: every key that reaches the store's path construction, from the
\* middleware or from the purge endpoint, is an output of GenerateKey; no
\* string a client supplied is used as a cache key in a path.
C11_OnlyGeneratedKeys ==
    /\ (mwLast # NoExchange /\ mwLast.getCalls > 0) => IsGeneratedKey(mwLast.key)
    /\ mwPurge # NoExchange =>
           /\ \A k \in mwPurge.deleteKeys : IsGeneratedKey(k)
           /\ mwPurge.paths \subseteq
                  UNION {{getDataPath(k), getMetaPath(k)} : k \in MwKeys}

(***************************************************************************)
(* Claims on the middleware's hit, error and store-failure paths           *)
(***************************************************************************)

\* the request passed the gate, store.Get returned without error and found
\* an entry
CacheHit == mwLast # NoExchange /\ mwLast.branch = "hit"

\* C12: on a cache hit the middleware calls neither the upstream handler
\* nor store.Put, adds one to hits and to no other counter, writes the
\* stored status and exactly the stored body with X-Cache: HIT, closes the
\* body reader once, and emits the hit event before any traffic event.
C12_HitServedFromStore ==
    CacheHit =>
        /\ mwLast.upstreamCalls = 0
        /\ mwLast.putCalls = 0
        /\ mwStats = [mwLast.before EXCEPT !.Hits = @ + 1]
        /\ mwLast.client.status = mwLast.stored.meta.StatusCode
        /\ mwLast.client.body = mwLast.stored.body
        /\ mwLast.client.sent[<<"X-Cache">>] = <<<<"HIT">>>>
        /\ mwLast.closes = 1
        /\ mwLast.events # <<>>
        /\ mwLast.events[1] = <<"hit", 0>>
        /\ \A i \in 2..Len(mwLast.events) : mwLast.events[i][1] = "traffic"

\* C12 witness: a hit on an entry with a body, which is streamed and
\* followed by a traffic event
C12_Witness ==
    /\ CacheHit
    /\ mwLast.stored # NoEntry
    /\ mwLast.stored.body # <<>>
    /\ mwLast.client.body = mwLast.stored.body
    /\ Len(mwLast.events) = 2

\* store.Get returned an error
GetFailed == mwLast # NoExchange /\ mwLast.branch = "error"

\* C13: when store.Get returns an error the middleware adds one to errors,
\* leaves hits, misses, puts and bypasses alone, calls the upstream handler
\* once with the client's own writer, and calls neither store.Put nor
\* Enqueue.
C13_GetErrorPassesThrough ==
    GetFailed =>
        /\ mwStats = [mwLast.before EXCEPT !.Errors = @ + 1]
        /\ mwLast.upstreamCalls = 1
        /\ mwLast.client = mwLast.direct
        /\ mwLast.rr = NoRecorder
        /\ mwLast.putCalls = 0
        /\ mwLast.enqueues = 0
        /\ mwStore[mwLast.key] = mwLast.stored

\* C13 witness: store.Get failed on a key the store holds, in asynchronous
\* mode with a pipeline and a queue, and the handler wrote a response
C13_Witness ==
    /\ GetFailed
    /\ mwCfg.OptimizationMode = "async"
    /\ mwLast.stored # NoEntry
    /\ mwLast.client.body # <<>>
    /\ mwStats.Errors = 1

\* C14: when store.Put returns an error on the capture-and-cache path, one
\* is added to errors, puts is not incremented, no put event is emitted and
\* the client still receives the upstream response.
C14_PutErrorCounted ==
    (mwLast # NoExchange /\ mwLast.putCalls = 1 /\ mwLast.putErr # "") =>
        /\ mwStats.Errors = mwLast.before.Errors + 1
        /\ mwStats.Puts = mwLast.before.Puts
        /\ \A i \in 1..Len(mwLast.events) : mwLast.events[i][1] # "put"
        /\ mwLast.client.status = mwLast.rr.statusCode

(***************************************************************************)
(* Claims on failed Puts and on purges                                     *)
(***************************************************************************)

\* C19: a filesystem Put that fails at any step (creating the temporary
\* file, reading the body, writing the metadata, renaming the data file)
\* leaves no partial entry: a Get that follows returns exactly what it would
\* have returned before the Put.
C19_FailedPutChangesNothing ==
    [][(stKind = "fs" /\ stLast'.op = "put" /\ stLast'.err # "" /\ now' = now) =>
           WouldGet("fs", fs', redis, Key1, now) = WouldGet("fs", fs, redis, Key1, now)]_vars

Optimized(k) ==
    /\ wkStore[k] # NoEntry
    /\ wkStore[k].body = Deflate(RawBody)
    /\ wkStore[k].meta.Encoding = <<"gzip">>
    /\ wkStore[k].meta.Size = Len(Deflate(RawBody))

\* C15: in asynchronous mode with a pipeline, a running pool and room in
\* the queue, after a miss for key k whose job was accepted (and with no
\* Delete or purge) the store eventually holds, and keeps, the output of the
\* pipeline with Encoding and Size updated; the raw body does not remain or
\* come back as the final content.
C15_AsyncEventuallyOptimized ==
    ([](wkStop = "none")) =>
        \A k \in WkKeys :
            (\E r \in wkLog.accepted : wkReq[r].key = k) ~> [](Optimized(k))

\* request r is at its call of Enqueue and the call returns or panics
EnqueueCall(r) == wkReq[r].pc = "enqueue" /\ wkReq'[r].pc # "enqueue"

\* C16: Enqueue never blocks: with free capacity the job is appended, with
\* QueueSize jobs queued the job is dropped, the queue is unchanged and nil
\* is returned; the queue never holds more than QueueSize jobs.
C16_EnqueueBounded ==
    /\ [](Len(wkQueue) <= QueueSize)
    /\ [][\A r \in Requests : EnqueueCall(r) =>
              /\ wkReq'[r].pc = "put"
              /\ Len(wkQueue) < QueueSize =>
                     wkQueue' = Append(wkQueue, Job(r, wkReq[r].key))
              /\ Len(wkQueue) >= QueueSize => wkQueue' = wkQueue]_vars

\* C17: when Stop returns, every job Enqueue accepted before Stop was
\* called has been processed: a worker has issued its store.Get.
C17_StopDrains == wkStop = "returned" => wkLog.accepted \subseteq wkLog.processed

\* C18: once Start has spawned the workers, a call of Stop returns, and it
\* returns only when every worker has exited.
C18_StopTerminates ==
    /\ [](wkStop = "returned" => \A w \in Workers : wkPc[w] = "exited")
    /\ (wkStop = "cancelled") ~> (wkStop = "returned")

\* C18 witness: Stop has returned from a started pool whose workers had
\* taken up jobs, and every worker has exited
C18_Witness ==
    /\ wkStop = "returned"
    /\ wkLog.processed # {}
    /\ \A w \in Workers : wkPc[w] = "exited"

(***************************************************************************)
(* Claims on Delete                                                        *)
(***************************************************************************)

\* the store after Delete(k), and what Delete returned
Deleted(kind, F, R, k, t) ==
    IF kind = "redis"
    THEN [fs |-> F, redis |-> RedisDelete(R, k).store, res |-> RedisDelete(R, k).res]
    ELSE CHOOSE out \in {[fs |-> r.fs, redis |-> R, res |-> r.loc.res] :
                            r \in {FsRun(F, DeleteCall(k), t)}} : TRUE

CacheMiss == mwLast # NoExchange /\ mwLast.branch = "miss"

\* C22: on a miss whose captured body is longer than MaxCacheSize,
\* store.Put is not called and no job is enqueued, misses goes up by one
\* and puts stays; a captured body of exactly MaxCacheSize bytes is stored.
C22_SizeGuard ==
    CacheMiss =>
        /\ Len(mwLast.rr.body) > MaxCacheSize =>
               /\ mwLast.putCalls = 0
               /\ mwLast.enqueues = 0
               /\ mwStats.Misses = mwLast.before.Misses + 1
               /\ mwStats.Puts = mwLast.before.Puts
               /\ mwStore[mwLast.key] = NoEntry
        /\ (/\ Len(mwLast.rr.body) = MaxCacheSize
            /\ IsResponseCacheable(mwLast.rr.statusCode, mwLast.rr.headers)) =>
               /\ mwLast.putCalls = 1
               /\ mwLast.putErr = "" =>
                      /\ mwStore[mwLast.key] # NoEntry
                      /\ mwStore[mwLast.key].body = mwLast.rr.body
                      /\ mwStats.Puts = mwLast.before.Puts + 1

\* C22 witness: in asynchronous mode a cacheable response one byte over
\* MaxCacheSize was not stored, after one of exactly MaxCacheSize bytes was
C22_Witness ==
    /\ CacheMiss
    /\ mwCfg.OptimizationMode = "async"
    /\ Len(mwLast.rr.body) = MaxCacheSize + 1
    /\ IsResponseCacheable(mwLast.rr.statusCode, mwLast.rr.headers)
    /\ mwLast.putCalls = 0
    /\ \E k \in MwKeys : mwStore[k] # NoEntry /\ Len(mwStore[k].body) = MaxCacheSize

\* C29: for every miss whose response is stored, the response the client
\* receives carries X-Cache: MISS besides the headers the upstream handler
\* sent.
C29_MissHeader ==
    (CacheMiss /\ mwLast.putCalls = 1 /\ mwLast.putErr = "") =>
        /\ mwLast.client.sent[<<"X-Cache">>] = <<<<"MISS">>>>
        /\ \A n \in HeaderNames :
               \A i \in 1..Len(mwLast.direct.sent[n]) :
                   \E j \in 1..Len(mwLast.client.sent[n]) :
                       mwLast.client.sent[n][j] = mwLast.direct.sent[n][i]

(***************************************************************************)
(* Claims on the order of Put and Enqueue                                  *)
(***************************************************************************)

\* the jobs in the channel or in a worker's hands
JobsOut == {wkQueue[i].id : i \in 1..Len(wkQueue)} \cup
           {wkJob[w].id : w \in {x \in Workers : wkJob[x] # NoJob}}

\* C30: in asynchronous mode with a pipeline and a queue, the job for a key
\* is enqueued only after the middleware's store.Put of the raw body has
\* returned, so a worker that takes the job up finds the raw entry (nothing
\* deletes an entry here and none expires).
C30_EnqueueAfterPut ==
    /\ [](\A r \in JobsOut : wkReq[r].pc = "done")
    /\ [][\A w \in Workers : (wkPc[w] = "get" /\ wkPc'[w] # "get") => wkPc'[w] = "put"]_vars


(***************************************************************************)
(* Claims on the transform pipeline                                        *)
(***************************************************************************)

\* C23: Pipeline.Apply folds the transforms left to right: it calls each
\* transform once, in declaration order, the first on the caller's reader and
\* meta, each next one on the reader and meta the one before returned, and
\* returns the reader and meta of the last; a failing transform or a done
\* context ends the fold there with the error; an empty pipeline returns the
\* input bytes and the meta unchanged
C23_FoldInOrder ==
    plOut # NoApplied =>
        LET ts == plIn.p.transforms
            log == plOut.log
            n == Len(log)
        IN  /\ n <= Len(ts)
            /\ \A i \in 1..n : log[i].transform = ts[i]
            /\ n >= 1 => log[1].reader = 1 /\ log[1].meta = plIn.meta
            /\ \A i \in 1..(n - 1) :
                   /\ log[i].err = ""
                   /\ log[i + 1].reader = log[i].out
                   /\ log[i + 1].meta = log[i].outMeta
            /\ plOut.err = "" =>
                   /\ n = Len(ts)
                   /\ n >= 1 => plOut.reader = log[n].out /\ plOut.meta = log[n].outMeta
                   /\ n = 0 => Rest(plOut.heap, plOut.reader) = plIn.data /\ plOut.meta = plIn.meta
            /\ plOut.err # "" =>
                   \/ plIn.cancelAt # 0 /\ n = plIn.cancelAt - 1 /\ plOut.err = "context canceled"
                   \/ n >= 1 /\ log[n].err = plOut.err

\* two different transforms ran, each returning a reader of its own, and
\* Apply returned the second one's
C23_Witness ==
    /\ plOut # NoApplied
    /\ plOut.err = ""
    /\ Len(plIn.p.transforms) = 2
    /\ plIn.p.transforms[1] # plIn.p.transforms[2]
    /\ Len(plOut.log) = 2
    /\ plOut.log[1].out # 1
    /\ plOut.log[2].out # plOut.log[1].out
    /\ plOut.log[2].outMeta # plOut.log[1].outMeta
    /\ plOut.reader = plOut.log[2].out

\* C24: whatever the pipeline and however the call ends, Apply has not
\* closed the reader the caller supplied, has closed every other reader a
\* transform returned except the one it returns, and has not closed the
\* reader it returns
C24_ReaderOwnership ==
    plOut # NoApplied =>
        /\ ~plOut.heap[1].closed
        /\ plOut.err = "" => ~plOut.heap[plOut.reader].closed
        /\ \A i \in 1..Len(plOut.log) :
               (plOut.log[i].err = "" /\ plOut.log[i].out \notin {1, plOut.reader})
                   => plOut.heap[plOut.log[i].out].closed

\* C25: a compress transform applied to a body whose meta.Encoding is empty
\* or "identity" emits no more bytes than it read; it emits the compressed
\* bytes and sets Encoding to its algorithm exactly when the body has at
\* least MinSize bytes and the compressed bytes are strictly fewer, and the
\* body itself with Encoding as it was otherwise; Size is the emitted length
\* and no other field of the meta changes
C25_CompressMonotone ==
    ( /\ plOut # NoApplied
      /\ Len(plIn.p.transforms) = 1
      /\ plIn.p.transforms[1].kind = "compress"
      /\ plIn.meta.Encoding \in {<<>>, <<"identity">>}
      /\ plOut.err = "" ) =>
        LET in == plIn.data
            out == Rest(plOut.heap, plOut.reader)
            cfg == plIn.p.transforms[1].config
            gain == Len(in) >= cfg.MinSize /\ Len(Deflate(in)) < Len(in)
        IN  /\ Len(out) <= Len(in)
            /\ (plOut.meta.Encoding = <<cfg.Type>>) <=> gain
            /\ gain => out = Deflate(in)
            /\ ~gain => out = in /\ plOut.meta.Encoding = plIn.meta.Encoding
            /\ plOut.meta.Size = Len(out)
            /\ [plOut.meta EXCEPT !.Size = 0, !.Encoding = <<>>]
                   = [plIn.meta EXCEPT !.Size = 0, !.Encoding = <<>>]

\* the brotli transform compressed an "identity" body with gain
C25_Witness ==
    /\ plOut # NoApplied
    /\ plOut.err = ""
    /\ Len(plIn.p.transforms) = 1
    /\ plIn.p.transforms[1].kind = "compress"
    /\ plIn.meta.Encoding = <<"identity">>
    /\ plOut.meta.Encoding = <<"br">>
    /\ Len(Rest(plOut.heap, plOut.reader)) < Len(plIn.data)
    /\ plOut.meta.Size = Len(Rest(plOut.heap, plOut.reader))

\* C26: when the minifier fails on a body of a handled media type, the
\* minify transform returns no error, the reader it returns yields the
\* original bytes, and the meta is unchanged
C26_MinifyFallback ==
    ( /\ plOut # NoApplied
      /\ Len(plIn.p.transforms) = 1
      /\ plIn.p.transforms[1].kind = "minify"
      /\ plIn.cancelAt = 0
      /\ ~plIn.fails
      /\ plIn.meta.ContentType # <<>>
      /\ shouldMinify(plIn.meta.ContentType[1], plIn.p.transforms[1].config)
      /\ Minify(plIn.data).err # "" ) =>
        /\ plOut.err = ""
        /\ Rest(plOut.heap, plOut.reader) = plIn.data
        /\ plOut.meta = plIn.meta


(***************************************************************************)
(* Claims on the counters                                                  *)
(***************************************************************************)

\* the increment calls on counter c that have not yet stored
CtPending(c) ==
    Cardinality({p \in Procs : ctProc[p].counter = c /\ ctProc[p].pc \in {"lock", "load", "store"}})

\* C27: no counter ever decreases; however the requests interleave, every
\* counter equals the number of increment calls made on it less those that
\* have not yet stored, so that it equals the number of calls once all have
\* returned; and the snapshot GetStats has read when it releases the lock is
\* the counters as they are at that moment
C27_CountersExact ==
    /\ [](\A c \in Counters : ctStats[c] = ctCalls[c] - CtPending(c))
    /\ [](\A p \in Procs : ctProc[p].pc = "runlock" => ctProc[p].snap = ctStats)
    /\ [][\A c \in Counters : ctStats'[c] >= ctStats[c]]_vars

\* a request is between the load and the store of an increment while another
\* waits for the mutex to increment the same counter, after a first increment
C27_Witness ==
    \E p, q \in Procs :
        /\ p # q
        /\ ctProc[p].pc = "store"
        /\ ctProc[q].pc = "lock"
        /\ ctProc[p].counter = ctProc[q].counter
        /\ ctMu.writer = p
        /\ ctStats[ctProc[p].counter] = 1

(***************************************************************************)
(* Claims on the Varnish store                                             *)
(***************************************************************************)

\* C28: VarnishStore.Delete(key) has sent one PURGE request for
\* <endpoint>/<key> to every configured endpoint, and returns nil exactly
\* when every endpoint answered 200 or 204
C28_PurgeEveryEndpoint ==
    vnOut # NoDeleted =>
        /\ vnOut.sent = [i \in 1..Len(vnIn.endpoints) |->
                            [method |-> "PURGE", url |-> <<vnIn.endpoints[i], "/", vnIn.key>>]]
        /\ (vnOut.err = "") <=>
               \A i \in 1..Len(vnIn.endpoints) :
                   ~vnIn.answers[i].err /\ vnIn.answers[i].status \in {200, 204}


(***************************************************************************)
(* Claims on the filesystem purge                                          *)
(***************************************************************************)

\* C31: the filesystem PurgePrefix(p) removes only entries whose key
\* contains p: a Get of a key that does not contain p returns after the
\* purge what it returned before it
C31_PurgeOverKeys ==
    [][(stKind = "fs" /\ stLast'.op = "purge" /\ now' = now) =>
           \A k \in StoreKeys :
               ~Contains(k, stLast'.prefix) =>
                   WouldGet("fs", fs', redis, k, now) = WouldGet("fs", fs, redis, k, now)]_vars


(***************************************************************************)
(* Claims on the failures of the pipeline                                  *)
(***************************************************************************)

\* C32: Pipeline.Apply stops at the first failure: a transform that returns
\* an error is the last one called, and when the context is done before a
\* stage begins neither that stage nor a later one is called; in both cases
\* Apply returns the error with a nil reader and a nil meta
C32_StopsAtFirstFailure ==
    plOut # NoApplied =>
        /\ \A i \in 1..Len(plOut.log) :
               plOut.log[i].err # "" =>
                   /\ i = Len(plOut.log)
                   /\ plOut.err = plOut.log[i].err
        /\ plIn.cancelAt \in 1..Len(plIn.p.transforms) =>
               /\ Len(plOut.log) < plIn.cancelAt
               /\ plOut.err # ""
               /\ (\A i \in 1..Len(plOut.log) : plOut.log[i].err = "")
                      => Len(plOut.log) = plIn.cancelAt - 1 /\ plOut.err = "context canceled"
        /\ plOut.err # "" => plOut.reader = 0 /\ plOut.meta = NoMeta

\* the first of two transforms returned its reader, the context was done
\* before the second began, and Apply returned the context's error
C32_Witness ==
    /\ plOut # NoApplied
    /\ Len(plIn.p.transforms) = 2
    /\ plIn.cancelAt = 2
    /\ Len(plOut.log) = 1
    /\ plOut.log[1].err = ""
    /\ plOut.log[1].out # 1
    /\ plOut.err = "context canceled"
    /\ plOut.reader = 0


(***************************************************************************)
(* Claims on the recorder                                                  *)
(***************************************************************************)

\* C33: the recorder records the status once: when the upstream handler has
\* called WriteHeader more than once, the recorded status code and headers
\* are those the recorder held after the first call
C33_StatusRecordedOnce ==
    (mwLast # NoExchange /\ mwLast.first # NoRecorder) =>
        /\ mwLast.rr.statusCode = mwLast.first.statusCode
        /\ mwLast.rr.headers = mwLast.first.headers


(***************************************************************************)
(* Claims on purge beside the worker pool                                  *)
(***************************************************************************)

\* C34: once the Delete(k) of a purge has returned, Get(k) is not-found until
\* a request that missed after the delete has stored k: neither a request
\* that was being served nor an optimization job that was queued or in
\* progress at the delete brings the entry back
C34_PurgeNotUndone ==
    \A k \in WkKeys :
        (wkLog.deleted /\ StoreGet(wkStore, k, "none", 0).res.found) =>
            \E r \in wkLog.fresh : wkReq[r].key = k /\ wkReq[r].pc = "done"


(***************************************************************************)
(* Claims on Enqueue at shutdown                                           *)
(***************************************************************************)

\* C35: however the Enqueue calls of the requests being served interleave
\* with Stop, and after Stop has returned, no call of Enqueue sends on the
\* closed channel: no request ends in a panic
C35_EnqueueSafeAtShutdown == \A r \in Requests : wkReq[r].pc # "panic"


(***************************************************************************)
(* Claims on the files concurrent calls leave                              *)
(***************************************************************************)

\* C36: when the Put, Delete and Get calls that ran together on a key have
\* all returned, the key's data file and metadata file both exist or Get
\* finds nothing because the data file is absent: there is never a data file
\* without its metadata file
C36_NoDataWithoutMeta ==
    (stKind = "fsconc" /\ \A p \in Procs : calls[p].pc \in {"idle", "ret"}) =>
        (Exists(fs, getDataPath(Key1)) => Exists(fs, getMetaPath(Key1)))


(***************************************************************************)
(* Claims on optimizing an entry again                                     *)
(***************************************************************************)

\* C37: the minify-then-compress pipeline applied to the bytes of an entry
\* that is already minified and compressed (its Encoding is set; the bytes
\* come from a buffer, as in ApplyToBytes) returns the entry's body, Encoding
\* and Size unchanged
C37_ReoptimizeIdempotent ==
    (/\ plOut # NoApplied
     /\ plIn.kind = "plain"
     /\ Len(plIn.p.transforms) = 2
     /\ plIn.p.transforms[1].kind = "minify"
     /\ plIn.p.transforms[2].kind = "compress"
     /\ plIn.meta.ContentType # <<>>
     /\ plIn.meta.Encoding \in {<<"gzip">>, <<"br">>}
     /\ plIn.cancelAt = 0
     /\ ~plIn.fails)
        => /\ plOut.err = ""
           /\ ~ReadFails(plOut.heap, plOut.reader)
           /\ Rest(plOut.heap, plOut.reader) = plIn.data
           /\ plOut.meta.Encoding = plIn.meta.Encoding
           /\ plIn.meta.Size = Len(plIn.data) => plOut.meta.Size = plIn.meta.Size


(***************************************************************************)
(* Claims on what a hit replays                                            *)
(***************************************************************************)

\* C38: a GET answered from the cache is answered with an entry that a GET
\* stored: an entry stored while serving a HEAD request is never served to a
\* GET for the same URL and Vary values
C38_GetServedFromGet ==
    (mwLast # NoExchange /\ mwLast.branch = "hit" /\ mwLast.req.method = "GET")
        => mwFrom[mwLast.key].method = "GET"

\* C39: with optimization disabled, a GET answered from the cache gets what
\* the client of the GET that stored the entry got: the same status, the
\* same body bytes, the same Content-Type and the same Content-Encoding
C39_HitEqualsMiss ==
    (/\ mwLast # NoExchange
     /\ mwLast.branch = "hit"
     /\ mwLast.req.method = "GET"
     /\ mwFrom[mwLast.key].method = "GET"
     /\ mwCfg.OptimizationMode = "disabled")
        => /\ mwLast.client.status = mwFrom[mwLast.key].status
           /\ mwLast.client.body = mwFrom[mwLast.key].body
           /\ mwLast.client.sent[<<"Content-Type">>] = mwFrom[mwLast.key].contentType
           /\ mwLast.client.sent[<<"Content-Encoding">>] = mwFrom[mwLast.key].contentEncoding


(***************************************************************************)
(* Claims on the counters of a request                                     *)
(***************************************************************************)

\* C40: a request served with caching enabled adds one to exactly one of
\* Bypasses, Errors, Hits and Misses and leaves the other three alone; it
\* adds at most one to Puts, and only when it is a miss; Puts never exceeds
\* Misses; a request served with caching disabled changes no counter and
\* makes no call on the store
C40_OneOutcomePerRequest ==
    /\ mwStats.Puts <= mwStats.Misses
    /\ mwLast # NoExchange =>
           LET outcomes == {"Bypasses", "Errors", "Hits", "Misses"}
               moved    == {c \in outcomes : mwStats[c] # mwLast.before[c]}
           IN  IF mwCfg.Enabled
               THEN /\ Cardinality(moved) = 1
                    /\ \A c \in moved : mwStats[c] = mwLast.before[c] + 1
                    /\ mwStats.Puts \in {mwLast.before.Puts, mwLast.before.Puts + 1}
                    /\ mwStats.Puts # mwLast.before.Puts => moved = {"Misses"}
                    /\ mwLast.putCalls <= 1
               ELSE /\ mwStats = mwLast.before
                    /\ mwLast.getCalls = 0
                    /\ mwLast.putCalls = 0
                    /\ mwStore[mwLast.key] = mwLast.stored

\* C40 witness: the second request is a hit on the entry the first, a miss,
\* stored: one hit, one miss and one put are counted
C40_Witness ==
    /\ mwLast # NoExchange
    /\ mwCfg.Enabled
    /\ mwLast.branch = "hit"
    /\ mwStats = [NoStats EXCEPT !.Hits = 1, !.Misses = 1, !.Puts = 1]

====
